---- MODULE Spec2Model ----
(***************************************************************************)
(* ATF Showcase: the client-side list / filter / paginate pipeline of the  *)
(* public showcase (UserApp) and of the admin panel (AdminApp), the admin  *)
(* entry forms, the confirmation prompts and the admin API client.         *)
(*                                                                         *)
(* One browser page runs one application: `surface` says which.  Every     *)
(* action is one task of the page's event loop: an event handler together  *)
(* with the microtasks it leaves behind (the continuation of an `await` on *)
(* an already settled promise runs before the next event), or the          *)
(* completion of one network request together with the continuation that   *)
(* awaited it.                                                             *)
(***************************************************************************)
EXTENDS Integers, Sequences, FiniteSets, Bags, TLC

(***************************************************************************)
(* Bounds of the model.                                                    *)
(***************************************************************************)
MaxLen == 3        \* longest text typed into the search box
MaxTotal == 13     \* largest total the backend reports for a list
MaxNet == 2        \* most requests in flight or waiting for their upload bar
MaxClock == 2      \* last instant of the clock
MaxPages == 10     \* most pages a list has
MaxUrlLen == 5     \* longest address typed into the url field, less its scheme
MaxLoads == 3      \* most calls of Config.load() awaiting their fetch

(***************************************************************************)
(* Program constants.                                                      *)
(***************************************************************************)
PageSize == 12             \* size: 12 and Math.ceil(total / 12)
UserMinSearch == 2         \* Filters.handleSearchChange
AdminMinSearch == 3        \* Validators.validateSearchQuery
MaxSearchLen == 100        \* Validators.validateSearchQuery
MaxVisible == 7            \* Pagination.getPageNumbers
MinWebsiteName == 2        \* Validators.validateWebsiteName
MaxWebsiteName == 100
MinDescription == 10       \* Validators.validateDescription
MaxDescription == 1000
MinCategoryName == 2       \* Validators.validateCategoryName
MaxCategoryName == 50
MaxImageSize == 5242880    \* Validators.validateImageFile: 5 * 1024 * 1024
ProgressCap == 90          \* simulateUploadProgress: if (progress >= 90)
MaxStep == 14              \* Math.random() * 15, in whole percents
FullProgress == 100        \* a bar that is full

(***************************************************************************)
(* Text.  A string is a sequence of one-character strings.                 *)
(***************************************************************************)
Chars == {" ", "a"}
Empty == << >>
Texts(n) == UNION {[1..k -> Chars] : k \in 0..n}

IsSpace(c) == c = " "

RECURSIVE trimStart(_)
trimStart(s) ==
    IF s # Empty /\ IsSpace(Head(s)) THEN trimStart(Tail(s)) ELSE s

RECURSIVE trimEnd(_)
trimEnd(s) ==
    IF s # Empty /\ IsSpace(s[Len(s)]) THEN trimEnd(SubSeq(s, 1, Len(s) - 1)) ELSE s

\* String.prototype.trim
trim(s) == trimEnd(trimStart(s))

(***************************************************************************)
(* Values of the environment: categories, dates, entries, the token.       *)
(***************************************************************************)
\* A category name is a text; the select boxes offer the loaded names.
NoCategory == << >>
Cat1 == <<"a", "a">>
CategoryNames == {Cat1}

\* Values of the date picker; NoDate is its empty value, "d2" lies after today.
NoDate == ""
Dates == {"d1", "d2"}
FutureDates == {"d2"}

\* Instants of the clock; the session of the page expires at ExpiresAt, and
\* sessionStorage.getItem gives null (NoExpiry) once the key is removed.
NoExpiry == 0 - 1
ExpiresAt == 1

NoToken == ""
SessionToken == "t1"

\* The entries the backend can hold: sheet name, serial, image file id.
EntryIds == {"e1", "e2"}
EntryOf(i) == [sheetName |-> Cat1, serial |-> i, name |-> <<"a", "a">>,
               category |-> Cat1, url |-> <<"https://", "a", ".", "a", "a">>,
               description |-> [k \in 1..MinDescription |-> "a"],
               imageFileId |-> IF i = "e1" THEN "img1" ELSE ""]

\* The totals the backend reports: none, one entry, more than one page.
Totals == {0, 1, MaxTotal}

NoRec == [k \in {} |-> 0]

\* An address without parameters.
NoQuery == NoRec

\* DeleteModal.deleteCallback = null, EditEntryModal.currentData = null
NoCallback == [kind |-> "none"]
NoEntry == ""

\* The text fields of an entry form as the page loads them, an empty file
\* input, and forms that show no error.
BlankForm == [name |-> Empty, category |-> NoCategory, url |-> Empty,
              description |-> Empty]
BlankEditForm == [sheetName |-> Empty, rowSerial |-> ""] @@ BlankForm
NoFile == [type |-> "", size |-> 0]
Forms == {"addEntry", "editEntry", "addCategory"}
NoErrors == [f \in Forms |-> {}]
Field(k, v, present) == IF present THEN k :> v ELSE NoRec

VARIABLES
    surface,        \* "user" or "admin": the application this page runs
    ready,          \* the application's own listeners are attached
    baseUrl,        \* UserAPI.baseUrl / AdminAPI.baseUrl ("" = not configured)
    location,       \* where window.location.href was last pointed
    urlParams,      \* window.location.search: the parameters of the address
    token,          \* AdminAPI.token
    storage,        \* sessionStorage: adminToken, tokenExpires
    clock,          \* the instant new Date() returns
    logoutModal,    \* LogoutModal.isOpen
    redirectArmed,  \* a timeout of handleLogout is armed
    config,         \* AppConfig.config
    loaded,         \* AppConfig.loaded
    configLoads,    \* bag of the callers of load() awaiting their fetch
    initialized,    \* UserAPI.initialized / AdminAPI.initialized
    currentView,    \* AdminApp.currentView
    currentPage,    \* UserApp/AdminApp.currentPage
    isLoading,      \* UserApp/AdminApp.isLoading
    entries,        \* UserApp/AdminApp.entries (ids of the entries shown)
    totalEntries,   \* UserApp/AdminApp.totalEntries
    emptyState,     \* the empty-state placeholder is visible
    categories,     \* category names loaded into the dropdowns
    filters,        \* Filters/AdminFilters.filters
    inputText,      \* searchInput.value
    timer,          \* timeouts of the search box armed, not yet fired or cleared
    searchError,    \* AdminFilters: the inline search error is shown
    pagination,     \* Pagination: currentPage, totalPages, totalItems
    deleteModal,    \* DeleteModal: isOpen, deleteCallback
    editModal,      \* EditEntryModal: isOpen, currentData
    addForm,        \* the text fields of the add-entry form
    addImage,       \* the file held by the add-entry form's image input
    editForm,       \* the text fields of the edit-entry form
    editImage,      \* the file held by the edit form's image input
    categoryInput,  \* the name field of the add-category form
    fieldErrors,    \* per form, the fields showing a validation error
    uploads,        \* bag of the submits waiting in simulateUploadProgress
    net,            \* bag of the requests in flight
    toasts          \* types of the toasts raised by the last task

appVars == <<surface, ready, baseUrl, location>>
authVars == <<token, storage, clock, logoutModal, redirectArmed>>
configVars == <<config, loaded, configLoads, initialized>>
urlVars == <<urlParams>>
listVars == <<currentView, currentPage, isLoading, entries, totalEntries,
              emptyState, categories, pagination>>
filterVars == <<filters, inputText, timer, searchError>>
promptVars == <<deleteModal>>
formVars == <<editModal, addForm, addImage, editForm, editImage, categoryInput,
              fieldErrors, uploads>>
adminVars == <<promptVars, formVars>>
vars == <<appVars, authVars, configVars, urlVars, listVars, filterVars,
          adminVars, net, toasts>>

(***************************************************************************)
(* Config.  The config file is a sequence of lines: a comment, a blank     *)
(* line, a line without "=", or key=value (both trimmed).  The             *)
(* configuration is a function from the keys set to their values.          *)
(***************************************************************************)
Comment == [kind |-> "comment"]
Blank == [kind |-> "blank"]
Bare(key) == [kind |-> "bare", key |-> key]
Pair(key, value) == [kind |-> "pair", key |-> key, value |-> value]

\* The fallback of load()
Defaults ==
    [APP_SCRIPT_URL |-> "", DRIVE_FOLDER_ID |-> "", PRIMARY_COLOR |-> "#0B5FFF",
     SECONDARY_COLOR |-> "#FFFFFF", BACKGROUND_COLOR |-> "#F8FAFC"]

\* The body of the loop of load() for one line: this.config[key] = value for a
\* line with a key and an "=".
setLine(c, line) ==
    IF line.kind = "pair" /\ line.key # ""
    THEN [k \in DOMAIN c \cup {line.key} |->
             IF k = line.key THEN line.value ELSE c[k]]
    ELSE c

\* The loop of load() over the lines of the file, from the configuration c.
RECURSIVE setLines(_, _)
setLines(c, lines) ==
    IF lines = << >> THEN c
    ELSE setLines(setLine(c, Head(lines)), Tail(lines))

\* Config.get(key), undefined being "" (as falsy as the empty string)
get(c, key) == IF key \in DOMAIN c THEN c[key] ELSE ""

(***************************************************************************)
(* The API clients.  A call is an endpoint, its query parameters and the   *)
(* options handed to request(); a request in flight is what fetch() was    *)
(* given, plus `by` (the continuation awaiting it) and `held` (history:    *)
(* AdminAPI.token when fetch was called).                                  *)
(***************************************************************************)
\* The page is loaded until window.location.href is pointed elsewhere; the
\* document that is being left handles no further task.
Loaded == location = surface

Bearer(t) == [scheme |-> "Bearer", token |-> t]

\* UserAPI.request / AdminAPI.request: defaultOptions, with t = this.token
defaultOptions(t) ==
    [method |-> "GET",
     headers |-> ("Content-Type" :> "application/json")
                 @@ Field("Authorization", Bearer(t),
                          surface = "admin" /\ t # NoToken)]

\* const finalOptions = { ...defaultOptions, ...options }
finalOptions(t, options) == options @@ defaultOptions(t)

\* What fetch(url, finalOptions) puts on the network when this.token is t.
FetchAs(t, call, by) ==
    LET final == finalOptions(t, call.options) IN
    [endpoint |-> call.endpoint, params |-> call.params,
     method |-> final.method, headers |-> final.headers,
     body |-> IF "body" \in DOMAIN final THEN final.body ELSE NoRec,
     by |-> by, held |-> t]

Fetch(call, by) == FetchAs(token, call, by)

One(r) == SetToBag({r})
InFlight == BagToSet(net)
Room(n) == BagCardinality(net) + n <= MaxNet
\* The requests in flight once r has ended.
Without(r) == net (-) One(r)

getPublicEntries(params) ==
    [endpoint |-> "/entries/publicList", params |-> params, options |-> NoRec]
getEntries(params) ==
    [endpoint |-> "/entries/list", params |-> params, options |-> NoRec]
getCategories ==
    [endpoint |-> "/categories/list", params |-> NoRec, options |-> NoRec]

\* How a request ends: a JSON body with success true or false, a 401, another
\* non-OK status, or a transport failure.  UserAPI has no 401 branch.
Outcomes ==
    IF surface = "admin" THEN {"ok", "fail", "unauthorized", "http", "neterr"}
    ELSE {"ok", "fail", "http", "neterr"}

\* window.showToast(message, type): a toast is modelled by its type.  Every
\* failure of a remote call reaches showToast(handleError(error, ...), 'error').
ErrorToast == "error"
SuccessToast == "success"

NoStorage == [adminToken |-> NoToken, tokenExpires |-> NoExpiry]

\* AdminAPI.clearToken()
clearToken ==
    /\ token' = NoToken
    /\ storage' = NoStorage

\* A handleUnauthorized that leaves the session storage as it is.
handleUnauthorizedInMemory ==
    /\ token' = NoToken
    /\ UNCHANGED storage
    /\ location' = "user"

\* AdminAPI.handleUnauthorized()
handleUnauthorized ==
    /\ clearToken
    /\ location' = "user"

\* request() from its await on fetch: a 401 runs handleUnauthorized before the
\* error is thrown to the caller.
Receive(r, outcome) ==
    /\ Loaded
    /\ IF surface = "admin" /\ outcome = "unauthorized"
       THEN handleUnauthorized
       ELSE UNCHANGED <<token, storage, location>>
    /\ UNCHANGED <<clock, logoutModal, redirectArmed, configVars, urlVars>>

(***************************************************************************)
(* Filters and AdminFilters.                                               *)
(***************************************************************************)
NoFilters == [search |-> Empty, date |-> NoDate, category |-> NoCategory]

\* getAPIParams() that sends the date as startDate only.
getAPIParamsStartOnly(f) ==
    Field("search", f.search, f.search # Empty)
    @@ Field("startDate", f.date, f.date # NoDate)
    @@ Field("category", f.category, f.category # NoCategory)

\* Filters.getAPIParams() / AdminFilters.getAPIParams()
getAPIParams(f) ==
    Field("search", f.search, f.search # Empty)
    @@ Field("startDate", f.date, f.date # NoDate)
    @@ Field("endDate", f.date, f.date # NoDate)
    @@ Field("category", f.category, f.category # NoCategory)

hasActiveFilters(f) ==
    f.search # Empty \/ f.date # NoDate \/ f.category # NoCategory

\* A validateSearchQuery that asks for two characters only.
validateSearchQueryShort(query) ==
    IF query = Empty \/ trim(query) = Empty THEN TRUE
    ELSE IF Len(trim(query)) < UserMinSearch THEN FALSE
    ELSE IF Len(trim(query)) > MaxSearchLen THEN FALSE
    ELSE TRUE

\* Validators.validateSearchQuery(query).valid
validateSearchQuery(query) ==
    IF query = Empty \/ trim(query) = Empty THEN TRUE
    ELSE IF Len(trim(query)) < AdminMinSearch THEN FALSE
    ELSE IF Len(trim(query)) > MaxSearchLen THEN FALSE
    ELSE TRUE

\* Validators.validateDate(dateString).valid, for the values of a date picker
validateDate(d) == d = NoDate \/ d \notin FutureDates

(***************************************************************************)
(* Validators.  A URL is a sequence of characters: the letter "a", the     *)
(* dot, the blank and the slash, with a scheme ("http://", "https://")     *)
(* written as one character.  The texts drawn hold a scheme at their front *)
(* only.                                                                   *)
(***************************************************************************)
Schemes == {"http://", "https://"}
startsWith(s, prefix) == s # Empty /\ Head(s) = prefix
IsLetter(c) == c = "a"

\* The text s without the slashes at its front.
RECURSIVE skipSlashes(_)
skipSlashes(s) ==
    IF s # Empty /\ Head(s) = "/" THEN skipSlashes(Tail(s)) ELSE s

\* The text s up to its first slash.
RECURSIVE upToSlash(_)
upToSlash(s) ==
    IF s = Empty \/ Head(s) = "/" THEN Empty
    ELSE <<Head(s)>> \o upToSlash(Tail(s))

\* new URL(formattedUrl).hostname: the text after the scheme and the slashes
\* that follow it, up to the next slash; Empty when the constructor throws
\* (no host, or a blank inside it).
hostname(formattedUrl) ==
    LET host == upToSlash(skipSlashes(Tail(formattedUrl))) IN
    IF \E k \in DOMAIN host : IsSpace(host[k])
    THEN Empty ELSE host

\* tldRegex.test(host) for /\.[a-z]{2,}$/i
tldRegex(host) ==
    \E k \in DOMAIN host :
        /\ host[k] = "."
        /\ Len(host) - k >= 2
        /\ \A j \in (k + 1)..Len(host) : IsLetter(host[j])

\* validateUrl(url) that asks for no domain extension.
validateUrlAnyHost(url) ==
    IF url = Empty \/ trim(url) = Empty
    THEN [valid |-> FALSE, message |-> "URL is required"]
    ELSE LET trimmed == trim(url)
             formattedUrl == IF \E h \in Schemes : startsWith(trimmed, h)
                             THEN trimmed
                             ELSE <<"https://">> \o trimmed
             host == hostname(formattedUrl)
         IN  IF host = Empty
             THEN [valid |-> FALSE, message |-> "Invalid URL format"]
             ELSE [valid |-> TRUE, url |-> formattedUrl]

\* Validators.validateUrl(url): valid, with the url given its scheme or with
\* the message
validateUrl(url) ==
    IF url = Empty \/ trim(url) = Empty
    THEN [valid |-> FALSE, message |-> "URL is required"]
    ELSE LET trimmed == trim(url)
             formattedUrl == IF \E h \in Schemes : startsWith(trimmed, h)
                             THEN trimmed
                             ELSE <<"https://">> \o trimmed
             host == hostname(formattedUrl)
         IN  IF host = Empty
             THEN [valid |-> FALSE, message |-> "Invalid URL format"]
             ELSE IF ~tldRegex(host)
             THEN [valid |-> FALSE,
                   message |-> "URL must have a valid domain extension"]
             ELSE [valid |-> TRUE, url |-> formattedUrl]

\* Validators.validateRequired(value, fieldName).valid
validateRequired(value) == ~(value = Empty \/ trim(value) = Empty)

\* Validators.validateLength(value, minLength, maxLength, fieldName).valid
validateLength(value, minLength, maxLength) ==
    /\ Len(trim(value)) >= minLength
    /\ Len(trim(value)) <= maxLength

\* /^[a-zA-Z0-9\s\-_]+$/ over the characters of the model
NameChars == {" ", "a"}

\* Validators.validateCategoryName(name).valid
validateCategoryName(name) ==
    /\ validateRequired(name)
    /\ validateLength(name, MinCategoryName, MaxCategoryName)
    /\ \A k \in DOMAIN trim(name) : trim(name)[k] \in NameChars

\* Validators.validateWebsiteName(name).valid
validateWebsiteName(name) ==
    /\ validateRequired(name)
    /\ validateLength(name, MinWebsiteName, MaxWebsiteName)

\* Validators.validateDescription(description).valid
validateDescription(description) ==
    /\ validateRequired(description)
    /\ validateLength(description, MinDescription, MaxDescription)

AllowedTypes == {"image/jpeg", "image/jpg", "image/png", "image/gif", "image/webp"}

\* Validators.validateImageFile(file).valid, for a file that is there
validateImageFile(file) ==
    /\ file.type \in AllowedTypes
    /\ file.size <= MaxImageSize

\* errors.push({ field, message }) when a check fails
Fault(field, valid) == IF valid THEN {} ELSE {field}

\* Validators.validateEntryForm(formData): errors (the fields at fault), valid,
\* and data (the form data with the url given its scheme when it is valid).
validateEntryForm(formData) ==
    LET errors ==
            Fault("name", validateWebsiteName(formData.name))
            \cup Fault("category", formData.category # NoCategory)
            \cup Fault("url", validateUrl(formData.url).valid)
            \cup Fault("description", validateDescription(formData.description))
            \cup Fault("image", "imageFile" \in DOMAIN formData
                                   => validateImageFile(formData.imageFile))
    IN  [valid |-> errors = {},
         errors |-> errors,
         data |-> IF validateUrl(formData.url).valid
                  THEN [formData EXCEPT !.url = validateUrl(formData.url).url]
                  ELSE formData]

\* Validators.validateCategoryForm(formData): errors and valid
validateCategoryForm(formData) ==
    LET errors == Fault("name", validateCategoryName(formData.name))
    IN  [valid |-> errors = {}, errors |-> errors]

(***************************************************************************)
(* The list orchestrators: UserApp and AdminApp.                           *)
(***************************************************************************)
\* The parameters of a list request that always asks for the first page.
ListParamsFirstPage(page, f) ==
    ("page" :> 1) @@ ("size" :> PageSize) @@ getAPIParams(f)

\* loadEntries(): params = { page: this.currentPage, size: 12, ...filters }
ListParams(page, f) ==
    ("page" :> page) @@ ("size" :> PageSize) @@ getAPIParams(f)

ListCall(page, f) ==
    IF surface = "user" THEN getPublicEntries(ListParams(page, f))
    ELSE getEntries(ListParams(page, f))

IsListRequest(r) == r.by = "loadEntries"
ListRequests == {r \in InFlight : IsListRequest(r)}
\* The number of list requests of loadEntries in flight.
Outstanding == BagCardinality([r \in ListRequests |-> CopiesIn(r, net)])

\* loadEntries() without its re-entrancy guard.
loadEntriesUnguarded(n, page, f, said) ==
    IF baseUrl = ""
    THEN /\ isLoading' = FALSE
         /\ net' = n
         /\ toasts' = said \cup {ErrorToast}
    ELSE /\ BagCardinality(n) < MaxNet
         /\ isLoading' = TRUE
         /\ net' = n (+) One(Fetch(ListCall(page, f), "loadEntries"))
         /\ toasts' = said

\* loadEntries() up to its await, called with the page and the filters current
\* at the call; n are the requests in flight at the call, `said` the toasts the
\* caller itself raises.
loadEntriesOn(n, page, f, said) ==
    IF isLoading
    THEN /\ UNCHANGED isLoading
         /\ net' = n
         /\ toasts' = said
    ELSE IF baseUrl = ""
    THEN \* request() throws; catch: showError; finally: isLoading = false
         /\ isLoading' = FALSE
         /\ net' = n
         /\ toasts' = said \cup {ErrorToast}
    ELSE /\ BagCardinality(n) < MaxNet
         /\ isLoading' = TRUE
         /\ net' = n (+) One(Fetch(ListCall(page, f), "loadEntries"))
         /\ toasts' = said

loadEntries(page, f, said) == loadEntriesOn(net, page, f, said)

\* A notification that leaves the current page as it is.
notifyKeepingPage(f) ==
    /\ UNCHANGED currentPage
    /\ loadEntries(currentPage, f, {})

\* handleFiltersChange / handleWebFiltersChange, run by notifyFiltersChange
notifyFiltersChange(f) ==
    /\ currentPage' = 1
    /\ loadEntries(1, f, {})

\* Math.ceil(total / 12)
CeilDiv(a, b) == (a + b - 1) \div b

(***************************************************************************)
(* Pagination.  A window is a sequence of page numbers in which Ellipsis   *)
(* (no page number) stands for the '...' item.  A button's data-page is    *)
(* "prev", "next" or "page" with the number the button was rendered with.  *)
(***************************************************************************)
Ellipsis == 0
Range(a, b) == [i \in 1..(b - a + 1) |-> a + i - 1]

\* getPageNumbers() without the branch of the last pages.
getPageNumbersNoTail(p) ==
    IF p.totalPages <= MaxVisible
    THEN Range(1, p.totalPages)
    ELSE IF p.currentPage <= 4
    THEN <<1>> \o Range(2, 5) \o <<Ellipsis, p.totalPages>>
    ELSE <<1, Ellipsis>> \o Range(p.currentPage - 1, p.currentPage + 1)
         \o <<Ellipsis, p.totalPages>>

\* getPageNumbers() that shows every page.
getPageNumbersAll(p) == Range(1, p.totalPages)

\* Pagination.getPageNumbers()
getPageNumbers(p) ==
    IF p.totalPages <= MaxVisible
    THEN Range(1, p.totalPages)
    ELSE IF p.currentPage <= 4
    THEN <<1>> \o Range(2, 5) \o <<Ellipsis, p.totalPages>>
    ELSE IF p.currentPage >= p.totalPages - 3
    THEN <<1, Ellipsis>> \o Range(p.totalPages - 4, p.totalPages)
    ELSE <<1, Ellipsis>> \o Range(p.currentPage - 1, p.currentPage + 1)
         \o <<Ellipsis, p.totalPages>>

\* The page buttons render() leaves in the container (none when totalPages <= 1).
PageButtons(p) ==
    IF p.totalPages <= 1 THEN {}
    ELSE LET w == getPageNumbers(p) IN
         {[page |-> "page", n |-> w[i]] : i \in {j \in DOMAIN w : w[j] # Ellipsis}}
         \cup {[page |-> "prev", n |-> 0] : x \in {1} \ {p.currentPage}}
         \cup {[page |-> "next", n |-> 0] : x \in {p.totalPages} \ {p.currentPage}}

Max(a, b) == IF a >= b THEN a ELSE b
Min(a, b) == IF a <= b THEN a ELSE b

\* handlePageClick: the page a click on `button` asks for
newPage(p, button) ==
    CASE button.page = "prev" -> Max(1, p.currentPage - 1)
      [] button.page = "next" -> Min(p.totalPages, p.currentPage + 1)
      [] OTHER -> button.n

\* update(currentPage, totalPages, totalItems), with the larger of the old and
\* the new number of pages.
updatedKeepingPages(p, page, totalPages, totalItems) ==
    [p EXCEPT !.currentPage = page, !.totalPages = Max(@, totalPages),
              !.totalItems = totalItems]

\* The controller p after update(currentPage, totalPages, totalItems): the
\* three fields are assigned.
updated(p, page, totalPages, totalItems) ==
    [p EXCEPT !.currentPage = page, !.totalPages = totalPages,
              !.totalItems = totalItems]

\* Pagination.update(currentPage, totalPages, totalItems)
update(page, totalPages, totalItems) ==
    pagination' = updated(pagination, page, totalPages, totalItems)

\* Pagination.render(): the window left in the container, none when
\* totalPages <= 1.
render(p) == IF p.totalPages <= 1 THEN <<>> ELSE getPageNumbers(p)

\* handlePageClick(page) without the test of the range.
handlePageClickUnguarded(button) ==
    LET n == newPage(pagination, button) IN
    IF n # pagination.currentPage
    THEN /\ pagination' = [pagination EXCEPT !.currentPage = n]
         /\ currentPage' = n
         /\ loadEntries(n, filters, {})
    ELSE /\ UNCHANGED <<pagination, currentPage, isLoading, net>>
         /\ toasts' = {}

\* handlePageClick(page) with the onPageChange callback of the orchestrator
\* (handlePageChange / handleWebPageChange).
handlePageClick(button) ==
    LET n == newPage(pagination, button) IN
    IF n # pagination.currentPage /\ n >= 1 /\ n <= pagination.totalPages
    THEN /\ pagination' = [pagination EXCEPT !.currentPage = n]
         /\ currentPage' = n
         /\ loadEntries(n, filters, {})
    ELSE /\ UNCHANGED <<pagination, currentPage, isLoading, net>>
         /\ toasts' = {}

(***************************************************************************)
(* Initial states.  The public page starts with its components built and   *)
(* loadInitialData under way; the admin page starts on the dashboard with  *)
(* its initial data loaded.                                                *)
(***************************************************************************)
BackendUrl == "https://script.example/exec"

\* A config file that names the backend, and one that does not.
ConfigFile ==
    <<Comment, Pair("APP_SCRIPT_URL", BackendUrl), Blank,
      Pair("PRIMARY_COLOR", "#112233")>>
PlainFile == <<Pair("DRIVE_FOLDER_ID", "folder"), Bare("APP_SCRIPT_URL")>>

\* The page has loaded its configuration, from the file or as the fallback,
\* and its API client has ended init().
InitConfigured ==
    /\ loaded = TRUE
    /\ configLoads = EmptyBag
    /\ initialized = TRUE
    /\ config = IF baseUrl = "" THEN Defaults ELSE setLines(NoRec, ConfigFile)

\* The page loads before the session expires, with the logout prompt closed.
InitSession ==
    /\ clock = 0
    /\ logoutModal = FALSE
    /\ redirectArmed = FALSE

InitCommon ==
    /\ urlParams = NoQuery
    /\ currentView = "dashboard"
    /\ currentPage = 1
    /\ entries = {}
    /\ totalEntries = 0
    /\ emptyState = FALSE
    /\ filters = NoFilters
    /\ inputText = Empty
    /\ timer = 0
    /\ searchError = FALSE
    /\ pagination = [currentPage |-> 1, totalPages |-> 1, totalItems |-> 0]
    /\ deleteModal = [isOpen |-> FALSE, deleteCallback |-> NoCallback]
    /\ editModal = [isOpen |-> FALSE, currentData |-> NoEntry]
    /\ addForm = BlankForm
    /\ addImage = NoFile
    /\ editForm = BlankEditForm
    /\ editImage = NoFile
    /\ categoryInput = Empty
    /\ fieldErrors = NoErrors
    /\ uploads = EmptyBag

InitUser ==
    /\ surface = "user"
    /\ location = "user"
    /\ token = NoToken
    /\ storage = NoStorage
    /\ InitSession
    /\ baseUrl \in {"", BackendUrl}
    /\ InitConfigured
    /\ categories = {}
    /\ InitCommon
    /\ IF baseUrl = ""
       THEN /\ ready = TRUE
            /\ isLoading = FALSE
            /\ net = EmptyBag
            /\ toasts = {ErrorToast}
       ELSE /\ ready = FALSE
            /\ isLoading = TRUE
            /\ net = One([endpoint |-> "/categories/list", params |-> NoRec,
                          method |-> "GET",
                          headers |-> ("Content-Type" :> "application/json"),
                          body |-> NoRec, by |-> "Filters.loadCategories",
                          held |-> NoToken])
                     (+) One([endpoint |-> "/entries/publicList",
                              params |-> ListParams(1, NoFilters),
                              method |-> "GET",
                              headers |-> ("Content-Type" :> "application/json"),
                              body |-> NoRec, by |-> "loadEntries",
                              held |-> NoToken])
            /\ toasts = {}

InitAdmin ==
    /\ surface = "admin"
    /\ location = "admin"
    /\ token = SessionToken
    /\ storage = [adminToken |-> SessionToken, tokenExpires |-> ExpiresAt]
    /\ InitSession
    /\ baseUrl \in {"", BackendUrl}
    /\ InitConfigured
    /\ categories \in {{}, CategoryNames}
    /\ baseUrl = "" => categories = {}
    /\ InitCommon
    /\ ready = TRUE
    /\ isLoading = FALSE
    /\ net = EmptyBag
    /\ toasts = {}

Init == InitUser \/ InitAdmin

(***************************************************************************)
(* Actions of the filter controllers.                                      *)
(***************************************************************************)
Still == Loaded /\ UNCHANGED <<appVars, authVars, configVars, urlVars>>
Quiet == Still /\ UNCHANGED adminVars
ListKept == UNCHANGED <<currentView, entries, totalEntries, emptyState,
                        categories>>

\* Filters.handleSearchChange(value)
userHandleSearchChange(value) ==
    IF Len(value) >= UserMinSearch \/ Len(value) = 0
    THEN /\ filters' = [filters EXCEPT !.search = trim(value)]
         /\ notifyFiltersChange(filters')
         /\ UNCHANGED searchError
    ELSE /\ UNCHANGED <<filters, searchError, currentPage, isLoading, net>>
         /\ toasts' = {}

\* AdminFilters.handleSearchChange(value)
adminHandleSearchChange(value) ==
    IF ~validateSearchQuery(value)
    THEN /\ searchError' = TRUE
         /\ UNCHANGED <<filters, currentPage, isLoading, net>>
         /\ toasts' = {}
    ELSE /\ searchError' = FALSE
         /\ filters' = [filters EXCEPT !.search = trim(value)]
         /\ notifyFiltersChange(filters')

handleSearchChange(value) ==
    IF surface = "user" THEN userHandleSearchChange(value)
    ELSE adminHandleSearchChange(value)

\* The search box is usable on the public page and on the admin Web List view.
FiltersUsable == surface = "user" \/ currentView = "webList"

\* clearTimeout(this.searchDebounceTimer), for n timeouts armed: the one the
\* handle names is cleared if it has not fired.
clearTimeout(n) == IF n > 0 THEN n - 1 ELSE 0

\* 'input' on the search box with no clearTimeout: the new timeout is armed
\* beside the pending one.
SearchInputStacking(T) ==
    \E s \in T :
        /\ FiltersUsable
        /\ s # inputText
        /\ inputText' = s
        /\ timer' = timer + 1
        /\ toasts' = {}
        /\ UNCHANGED <<filters, searchError, listVars, net>>
        /\ Quiet

\* 'input' on the search box: the pending timer is cleared and a new one armed.
SearchInput(T) ==
    \E s \in T :
        /\ FiltersUsable
        /\ s # inputText
        /\ inputText' = s
        /\ timer' = clearTimeout(timer) + 1
        /\ toasts' = {}
        /\ UNCHANGED <<filters, searchError, listVars, net>>
        /\ Quiet

\* The debounce timer fires: handleSearchChange(e.target.value)
DebounceFire ==
    /\ timer > 0
    /\ timer' = timer - 1
    /\ handleSearchChange(inputText)
    /\ UNCHANGED <<inputText, pagination>>
    /\ ListKept
    /\ Quiet

\* 'keydown' Enter on the search box, the pending timer left armed.
SearchEnterKeepingTimer ==
    /\ FiltersUsable
    /\ UNCHANGED timer
    /\ handleSearchChange(inputText)
    /\ UNCHANGED <<inputText, pagination>>
    /\ ListKept
    /\ Quiet

\* 'keydown' Enter on the search box
SearchEnter ==
    /\ FiltersUsable
    /\ timer' = clearTimeout(timer)
    /\ handleSearchChange(inputText)
    /\ UNCHANGED <<inputText, pagination>>
    /\ ListKept
    /\ Quiet

\* Filters.handleDateChange(value) / AdminFilters.handleDateChange(value)
handleDateChange(value) ==
    IF surface = "admin" /\ ~validateDate(value)
    THEN /\ toasts' = {ErrorToast}
         /\ UNCHANGED <<filters, currentPage, isLoading, net>>
    ELSE /\ filters' = [filters EXCEPT !.date = value]
         /\ notifyFiltersChange(filters')

\* 'change' on the date filter.  The admin date box can hold a rejected date,
\* so there a change may also lead back to the stored one.
DateChange ==
    \E d \in Dates \cup {NoDate} :
        /\ FiltersUsable
        /\ surface = "user" => d # filters.date /\ d \notin FutureDates
        /\ handleDateChange(d)
        /\ UNCHANGED <<inputText, timer, searchError, pagination>>
        /\ ListKept
        /\ Quiet

\* Filters.handleCategoryChange(value) / AdminFilters.handleCategoryChange(value)
handleCategoryChange(value) ==
    /\ filters' = [filters EXCEPT !.category = value]
    /\ notifyFiltersChange(filters')

\* 'change' on the category filter
CategoryChange ==
    \E c \in categories \cup {NoCategory} :
        /\ FiltersUsable
        /\ c # filters.category
        /\ handleCategoryChange(c)
        /\ UNCHANGED <<inputText, timer, searchError, pagination>>
        /\ ListKept
        /\ Quiet

\* clearAllFilters() that leaves the text of the search box in place.
clearAllFiltersKeepingText ==
    /\ filters' = NoFilters
    /\ searchError' = FALSE
    /\ notifyFiltersChange(filters')
    /\ UNCHANGED <<inputText, timer, pagination>>
    /\ ListKept
    /\ Quiet

\* clearAllFilters()
clearAllFilters ==
    /\ filters' = NoFilters
    /\ inputText' = Empty
    /\ searchError' = FALSE
    /\ notifyFiltersChange(filters')
    /\ UNCHANGED <<timer, pagination>>
    /\ ListKept
    /\ Quiet

\* 'click' on the clear button
ClearFilters == FiltersUsable /\ clearAllFilters

\* UserApp: 'keydown' Escape clears the filters when any is active
EscapeClear ==
    /\ surface = "user"
    /\ ready
    /\ hasActiveFilters(filters)
    /\ clearAllFilters

\* Filters.setFilters(filters)
setFilters(g) ==
    /\ filters' = g @@ filters
    /\ inputText' = IF "search" \in DOMAIN g THEN g.search ELSE inputText
    /\ notifyFiltersChange(filters')

\* setFilters, as UserApp calls it on popstate and in loadFromURL
SetFilters(F) ==
    \E g \in F :
        /\ surface = "user"
        /\ ready
        /\ setFilters(g)
        /\ UNCHANGED <<timer, searchError, pagination>>
        /\ ListKept
        /\ Quiet

(***************************************************************************)
(* Actions of the orchestrators.                                           *)
(***************************************************************************)
\* handlePageClick(page) run for one of the buttons B
PageClickOn(B) ==
    \E b \in B :
        /\ FiltersUsable
        /\ handlePageClick(b)
        /\ UNCHANGED filterVars
        /\ ListKept
        /\ Quiet

\* 'click' on a button of the pagination bar
PageClick == PageClickOn(PageButtons(pagination))

\* UserApp.refresh(), run when the page becomes visible again
VisibilityRefresh ==
    /\ surface = "user"
    /\ currentPage' = 1
    /\ loadEntries(1, filters, {})
    /\ UNCHANGED <<filterVars, pagination>>
    /\ ListKept
    /\ Quiet

\* AdminApp.loadDashboardStats() up to its await: Promise.all of two requests;
\* n are the requests in flight at the call.
loadDashboardStatsOn(n) ==
    IF baseUrl = ""
    THEN net' = n
    ELSE /\ BagCardinality(n) + 2 <= MaxNet
         /\ net' = n (+) One(Fetch(getEntries(NoRec), "loadDashboardStats"))
                     (+) One(Fetch(getCategories, "loadDashboardStats"))

loadDashboardStats == loadDashboardStatsOn(net)

\* AdminApp.loadCategories() up to its await
loadCategoriesOn(n) ==
    IF baseUrl = ""
    THEN net' = n
    ELSE /\ BagCardinality(n) < MaxNet
         /\ net' = n (+) One(Fetch(getCategories, "AdminApp.loadCategories"))

loadCategories == loadCategoriesOn(net)

\* AdminApp.switchView(viewName), called with the requests n in flight
switchViewOn(n, viewName, said) ==
    /\ currentView' = viewName
    /\ CASE viewName = "webList" -> loadEntriesOn(n, currentPage, filters, said)
         [] viewName = "dashboard" ->
                loadDashboardStatsOn(n) /\ toasts' = said /\ UNCHANGED isLoading
         [] OTHER -> net' = n /\ UNCHANGED isLoading /\ toasts' = said

switchView(viewName) == switchViewOn(net, viewName, {})

\* 'click' on a navigation button
SwitchView(V) ==
    \E v \in V :
        /\ surface = "admin"
        /\ ready
        /\ switchView(v)
        /\ UNCHANGED <<currentPage, entries, totalEntries, emptyState,
                       categories, pagination, filterVars>>
        /\ Quiet

\* AdminApp.refreshCurrentView(), called with the requests n in flight
refreshCurrentViewOn(n) ==
    CASE currentView = "webList" ->
             loadEntriesOn(n, currentPage, filters, {SuccessToast})
      [] currentView = "dashboard" ->
             loadDashboardStatsOn(n) /\ toasts' = {SuccessToast} /\ UNCHANGED isLoading
      [] currentView = "addCategory" ->
             loadCategoriesOn(n) /\ toasts' = {SuccessToast} /\ UNCHANGED isLoading
      [] OTHER -> net' = n /\ UNCHANGED isLoading /\ toasts' = {SuccessToast}

refreshCurrentView == refreshCurrentViewOn(net)

\* 'click' on the refresh button
Refresh ==
    /\ surface = "admin"
    /\ ready
    /\ refreshCurrentView
    /\ UNCHANGED <<currentView, currentPage, entries, totalEntries, emptyState,
                   categories, pagination, filterVars>>
    /\ Quiet

(***************************************************************************)
(* AdminAPI calls, and request() up to its fetch.                          *)
(***************************************************************************)
deleteEntry(sheetName, rowSerial, imageFileId) ==
    [endpoint |-> "/entries/delete", params |-> NoRec,
     options |-> [method |-> "POST",
                  body |-> [sheetName |-> sheetName, rowSerial |-> rowSerial,
                            imageFileId |-> imageFileId]]]

deleteCategory(name) ==
    [endpoint |-> "/categories/delete", params |-> NoRec,
     options |-> [method |-> "POST", body |-> [name |-> name]]]

\* request(endpoint, options) as an orchestrator calls it inside try/catch:
\* without a base URL it throws and the catch shows the error.
request(call, by, said) ==
    IF baseUrl = ""
    THEN /\ net' = net
         /\ toasts' = said \cup {ErrorToast}
    ELSE /\ Room(1)
         /\ net' = net (+) One(Fetch(call, by))
         /\ toasts' = said

createEntry(formData) ==
    [endpoint |-> "/entries/create", params |-> NoRec,
     options |-> [method |-> "POST", body |-> formData, headers |-> NoRec]]

updateEntry(formData) ==
    [endpoint |-> "/entries/update", params |-> NoRec,
     options |-> [method |-> "POST", body |-> formData, headers |-> NoRec]]

createCategory(name) ==
    [endpoint |-> "/categories/create", params |-> NoRec,
     options |-> [method |-> "POST", body |-> [name |-> name]]]

updateCategory(originalName, newName) ==
    [endpoint |-> "/categories/update", params |-> NoRec,
     options |-> [method |-> "POST",
                  body |-> [originalName |-> originalName, newName |-> newName]]]

(***************************************************************************)
(* The add-entry form.  The preview image and the progress bar are not     *)
(* modelled.                                                               *)
(***************************************************************************)
\* What the fields of a form can be filled with.
ValidName == <<"a", "a">>
ValidUrl == <<"a", ".", "a", "a">>
ValidDescription == [k \in 1..MinDescription |-> "a"]
ValidForm == [name |-> ValidName, category |-> Cat1, url |-> ValidUrl,
              description |-> ValidDescription]

\* The files a file dialog can hand over: an image, an empty image, a text
\* file, an image over the size limit.
Files == {[type |-> "image/png", size |-> 1], [type |-> "image/png", size |-> 0],
          [type |-> "text/plain", size |-> 1],
          [type |-> "image/png", size |-> MaxImageSize + 1]}

\* data of handleAddEntry / handleSubmit: the fields, and imageFile when the
\* input holds a file that is not empty
FormData(fields, image) ==
    fields @@ Field("imageFile", image, image # NoFile /\ image.size > 0)

\* apiFormData: every key but imageFile, and image when there is an imageFile
ApiFormData(data, from) ==
    [k \in DOMAIN from \ {"imageFile"} |-> from[k]]
    @@ Field("image", data.imageFile, "imageFile" \in DOMAIN data)

\* The quiet part of a task of the admin forms.
FormOnly ==
    /\ surface = "admin"
    /\ ready
    /\ UNCHANGED <<listVars, filterVars, promptVars>>
    /\ Still

\* AdminApp.populateCategorySelect: the options of the category select of a
\* form are the placeholder and the categories loaded
CategoryOptions == {NoCategory} \cup categories

\* The user fills the fields of the add-entry form.
FillAddForm(F) ==
    \E f \in F :
        /\ currentView = "addEntry"
        /\ f.category \in CategoryOptions
        /\ f # addForm
        /\ addForm' = f
        /\ UNCHANGED <<editModal, addImage, editForm, editImage, categoryInput,
                       fieldErrors, uploads, net>>
        /\ toasts' = {}
        /\ FormOnly

\* AdminApp.handleImagePreview(e, previewId): 'change' on the image input
handleImagePreview(file) ==
    IF validateImageFile(file)
    THEN addImage' = file /\ toasts' = {}
    ELSE addImage' = NoFile /\ toasts' = {ErrorToast}

SelectImage ==
    \E file \in Files :
        /\ currentView = "addEntry"
        /\ file # addImage
        /\ handleImagePreview(file)
        /\ UNCHANGED <<editModal, addForm, editForm, editImage, categoryInput,
                       fieldErrors, uploads, net>>
        /\ FormOnly

\* AdminApp.removeImagePreview(previewId, inputId)
removeImagePreview == addImage' = NoFile

\* 'click' on the remove-image button
RemoveImage ==
    /\ currentView = "addEntry"
    /\ removeImagePreview
    /\ UNCHANGED <<editModal, addForm, editForm, editImage, categoryInput,
                   fieldErrors, uploads, net>>
    /\ toasts' = {}
    /\ FormOnly

\* AdminApp.resetAddEntryForm()
resetAddEntryForm ==
    /\ addForm' = BlankForm
    /\ fieldErrors' = [fieldErrors EXCEPT !["addEntry"] = {}]
    /\ removeImagePreview

\* 'click' on the reset button
ResetForm ==
    /\ currentView = "addEntry"
    /\ resetAddEntryForm
    /\ UNCHANGED <<editModal, editForm, editImage, categoryInput, uploads, net>>
    /\ toasts' = {}
    /\ FormOnly

\* simulateUploadProgress(callback): `let progress = 0` and setInterval; the
\* callback runs once the interval has brought the bar to ProgressCap and the
\* timeout after it has passed.
simulateUploadProgress(callback, formData) ==
    /\ BagCardinality(uploads) + BagCardinality(net) < MaxNet
    /\ uploads' = uploads (+) One([callback |-> callback, formData |-> formData,
                                   progress |-> 0])

\* AdminApp.completeAddEntry(formData) up to its await
completeAddEntry(formData) ==
    request(createEntry(formData), "completeAddEntry", {})

\* A handleAddEntry that submits whatever the form holds.
handleAddEntryUnvalidated ==
    LET data == FormData(addForm, addImage)
        apiFormData == ApiFormData(data, data)
    IN  /\ UNCHANGED fieldErrors
        /\ IF "imageFile" \in DOMAIN data
           THEN /\ simulateUploadProgress("completeAddEntry", apiFormData)
                /\ UNCHANGED net
                /\ toasts' = {}
           ELSE /\ completeAddEntry(apiFormData)
                /\ UNCHANGED uploads

\* AdminApp.handleAddEntry(e)
handleAddEntry ==
    LET data == FormData(addForm, addImage)
        validation == validateEntryForm(data)
        apiFormData == ApiFormData(data, validation.data)
    IN  IF ~validation.valid
        THEN /\ fieldErrors' = [fieldErrors EXCEPT !["addEntry"] = validation.errors]
             /\ UNCHANGED <<uploads, net>>
             /\ toasts' = {}
        ELSE /\ UNCHANGED fieldErrors
             /\ IF "imageFile" \in DOMAIN data
                THEN /\ simulateUploadProgress("completeAddEntry", apiFormData)
                     /\ UNCHANGED net
                     /\ toasts' = {}
                ELSE /\ completeAddEntry(apiFormData)
                     /\ UNCHANGED uploads

\* 'submit' of the add-entry form
SubmitAdd ==
    /\ currentView = "addEntry"
    /\ handleAddEntry
    /\ UNCHANGED <<editModal, addForm, addImage, editForm, editImage, categoryInput>>
    /\ FormOnly

(***************************************************************************)
(* The add-category form and the categories list.                          *)
(***************************************************************************)
CategoryTexts == {Empty, <<"a">>, <<"a", " ">>, <<"a", "!">>, <<"a", "a">>}

\* The user fills the name field of the add-category form.
TypeCategory(T) ==
    \E t \in T :
        /\ currentView = "addCategory"
        /\ t # categoryInput
        /\ categoryInput' = t
        /\ UNCHANGED <<editModal, addForm, addImage, editForm, editImage,
                       fieldErrors, uploads, net>>
        /\ toasts' = {}
        /\ FormOnly

\* AdminApp.handleAddCategory(e) up to its await
handleAddCategory ==
    LET data == [name |-> categoryInput]
        validation == validateCategoryForm(data)
    IN  IF ~validation.valid
        THEN /\ fieldErrors' = [fieldErrors EXCEPT !["addCategory"] = validation.errors]
             /\ UNCHANGED net
             /\ toasts' = {}
        ELSE /\ UNCHANGED fieldErrors
             /\ request(createCategory(data.name), "handleAddCategory", {})

\* 'submit' of the add-category form
SubmitCategory ==
    /\ currentView = "addCategory"
    /\ handleAddCategory
    /\ UNCHANGED <<editModal, addForm, addImage, editForm, editImage,
                   categoryInput, uploads>>
    /\ FormOnly

\* AdminApp.handleEditCategory(categoryName) with the answer to its prompt(),
\* and updateCategory up to its await
handleEditCategory(categoryName, newName) ==
    IF newName # Empty /\ newName # categoryName
    THEN request(updateCategory(categoryName, newName), "updateCategory", {})
    ELSE UNCHANGED net /\ toasts' = {}

\* 'click' on the edit button of a row of the categories list
EditCategory ==
    \E c \in categories, t \in CategoryTexts :
        /\ currentView = "addCategory"
        /\ handleEditCategory(c, t)
        /\ UNCHANGED formVars
        /\ FormOnly

(***************************************************************************)
(* The edit-entry modal.                                                   *)
(***************************************************************************)
\* EditEntryModal.populateForm(data): the text and hidden fields take the
\* entry's values; the image input is left as it is.
populateForm(data) ==
    editForm' = [sheetName |-> data.sheetName, rowSerial |-> data.serial,
                 name |-> data.name, category |-> data.category,
                 url |-> data.url, description |-> data.description]

\* AdminApp.handleEditEntry(sheetName, serial) with EditEntryModal.openWithData
handleEditEntry(sheetName, serial) ==
    IF \E i \in entries :
          EntryOf(i).sheetName = sheetName /\ EntryOf(i).serial = serial
    THEN LET i == CHOOSE i \in entries :
                     EntryOf(i).sheetName = sheetName /\ EntryOf(i).serial = serial
         IN  /\ editModal' = [isOpen |-> TRUE, currentData |-> i]
             /\ populateForm(EntryOf(i))
    ELSE UNCHANGED <<editModal, editForm>>

\* 'click' on the edit button of the card of an entry (AdminCard's onclick)
EditClick ==
    \E i \in entries :
        /\ currentView = "webList"
        /\ handleEditEntry(EntryOf(i).sheetName, EntryOf(i).serial)
        /\ UNCHANGED <<addForm, addImage, editImage, categoryInput, fieldErrors,
                       uploads, net>>
        /\ toasts' = {}
        /\ FormOnly

\* The user changes the text fields of the edit form.
FillEditForm(F) ==
    \E f \in F :
        /\ editModal.isOpen
        /\ f.category \in CategoryOptions
        /\ editForm' = f @@ editForm
        /\ editForm' # editForm
        /\ UNCHANGED <<editModal, addForm, addImage, editImage, categoryInput,
                       fieldErrors, uploads, net>>
        /\ toasts' = {}
        /\ FormOnly

\* EditEntryModal.handleImageChange(e): 'change' on the image input
handleImageChange(file) ==
    IF validateImageFile(file)
    THEN editImage' = file /\ toasts' = {}
    ELSE editImage' = NoFile /\ toasts' = {ErrorToast}

SelectEditImage ==
    \E file \in Files :
        /\ editModal.isOpen
        /\ file # editImage
        /\ handleImageChange(file)
        /\ UNCHANGED <<editModal, addForm, addImage, editForm, categoryInput,
                       fieldErrors, uploads, net>>
        /\ FormOnly

\* EditEntryModal.removeImage(): 'click' on the remove-image button
RemoveEditImage ==
    /\ editModal.isOpen
    /\ editImage' = NoFile
    /\ UNCHANGED <<editModal, addForm, addImage, editForm, categoryInput,
                   fieldErrors, uploads, net>>
    /\ toasts' = {}
    /\ FormOnly

\* EditEntryModal.completeUpdate(formData) up to its await
completeUpdate(formData) ==
    request(updateEntry(formData), "completeUpdate", {})

\* A handleSubmit that shows the errors and sends the update all the same.
handleSubmitAnyway ==
    LET data == FormData(editForm, editImage)
        validation == validateEntryForm(data)
    IN  /\ fieldErrors' = [fieldErrors EXCEPT !["editEntry"] = validation.errors]
        /\ completeUpdate(ApiFormData(data, data))
        /\ UNCHANGED uploads

\* EditEntryModal.handleSubmit()
handleSubmit ==
    LET data == FormData(editForm, editImage)
        validation == validateEntryForm(data)
        apiFormData == ApiFormData(data, data)
    IN  IF ~validation.valid
        THEN /\ fieldErrors' = [fieldErrors EXCEPT !["editEntry"] = validation.errors]
             /\ UNCHANGED <<uploads, net>>
             /\ toasts' = {}
        ELSE /\ UNCHANGED fieldErrors
             /\ IF "imageFile" \in DOMAIN data
                THEN /\ simulateUploadProgress("completeUpdate", apiFormData)
                     /\ UNCHANGED net
                     /\ toasts' = {}
                ELSE /\ completeUpdate(apiFormData)
                     /\ UNCHANGED uploads

\* 'submit' of the edit form
SubmitEdit ==
    /\ editModal.isOpen
    /\ handleSubmit
    /\ UNCHANGED <<editModal, addForm, addImage, editForm, editImage, categoryInput>>
    /\ FormOnly

\* AdminModal.close() of the edit modal: cancel, close, backdrop or Escape
CloseEdit ==
    /\ editModal.isOpen
    /\ editModal' = [editModal EXCEPT !.isOpen = FALSE]
    /\ UNCHANGED <<addForm, addImage, editForm, editImage, categoryInput,
                   fieldErrors, uploads, net>>
    /\ toasts' = {}
    /\ FormOnly

\* progress += Math.random() * 15, and the cap
advance(progress, step) ==
    IF progress + step >= ProgressCap THEN ProgressCap ELSE progress + step

\* The interval of simulateUploadProgress fires and writes the progress into
\* the bar: once, with Math.random() * 15 = step, or several times in a row
\* that add up to step.
ProgressTick(S) ==
    \E u \in BagToSet(uploads), step \in S :
        /\ u.progress < ProgressCap
        /\ uploads' = (uploads (-) One(u))
                       (+) One([u EXCEPT !.progress = advance(@, step)])
        /\ UNCHANGED <<editModal, addForm, addImage, editForm, editImage,
                       categoryInput, fieldErrors, net, toasts>>
        /\ FormOnly

\* The timeout of simulateUploadProgress runs its callback.
UploadDone ==
    \E u \in BagToSet(uploads) :
        /\ u.progress = ProgressCap
        /\ uploads' = uploads (-) One(u)
        /\ IF u.callback = "completeAddEntry"
           THEN completeAddEntry(u.formData)
           ELSE completeUpdate(u.formData)
        /\ UNCHANGED <<editModal, addForm, addImage, editForm, editImage,
                       categoryInput, fieldErrors>>
        /\ FormOnly

(***************************************************************************)
(* The delete confirmation prompt.                                         *)
(***************************************************************************)
\* An openWithCallback that keeps a callback already stored.
openKeepingCallback(callback) ==
    deleteModal' = [isOpen |-> TRUE,
                    deleteCallback |-> IF deleteModal.deleteCallback = NoCallback
                                       THEN callback
                                       ELSE deleteModal.deleteCallback]

\* DeleteModal.openWithCallback(message, callback)
openWithCallback(callback) ==
    deleteModal' = [isOpen |-> TRUE, deleteCallback |-> callback]

\* AdminApp.handleDeleteEntry(sheetName, serial, imageFileId)
handleDeleteEntry(sheetName, serial, imageFileId) ==
    IF \E i \in entries :
          EntryOf(i).sheetName = sheetName /\ EntryOf(i).serial = serial
    THEN openWithCallback([kind |-> "entry", sheetName |-> sheetName,
                           serial |-> serial, imageFileId |-> imageFileId])
    ELSE UNCHANGED deleteModal

\* AdminApp.handleDeleteCategory(categoryName)
handleDeleteCategory(categoryName) ==
    openWithCallback([kind |-> "category", name |-> categoryName])

\* The quiet part of a task of the prompt.
PromptOnly ==
    /\ surface = "admin"
    /\ ready
    /\ UNCHANGED <<listVars, filterVars, formVars>>
    /\ Still

\* 'click' on the delete button of the card of entry i (AdminCard's onclick)
DeleteClickOf(i) ==
    /\ currentView = "webList"
    /\ handleDeleteEntry(EntryOf(i).sheetName, EntryOf(i).serial,
                         EntryOf(i).imageFileId)
    /\ UNCHANGED net
    /\ toasts' = {}
    /\ PromptOnly

DeleteClick == \E i \in entries : DeleteClickOf(i)

\* 'click' on the delete button of a row of the categories list
DeleteCategoryClick ==
    \E c \in categories :
        /\ currentView = "addCategory"
        /\ handleDeleteCategory(c)
        /\ UNCHANGED net
        /\ toasts' = {}
        /\ PromptOnly

\* deleteCallback(): the closure handed to openWithCallback, up to its await
deleteCallback(callback) ==
    CASE callback.kind = "entry" ->
             request(deleteEntry(callback.sheetName, callback.serial,
                                 callback.imageFileId),
                     "handleDeleteEntry", {})
      [] callback.kind = "category" ->
             request(deleteCategory(callback.name), "handleDeleteCategory", {})
      [] OTHER -> UNCHANGED net /\ toasts' = {}

\* AdminModal.close() of the delete prompt
closeDeleteModal == deleteModal' = [deleteModal EXCEPT !.isOpen = FALSE]

\* 'click' on the confirm button of the prompt
ConfirmDelete ==
    /\ deleteModal.isOpen
    /\ deleteCallback(deleteModal.deleteCallback)
    /\ closeDeleteModal
    /\ PromptOnly

\* 'click' on the cancel or close button or on the backdrop, or Escape
CancelDelete ==
    /\ deleteModal.isOpen
    /\ closeDeleteModal
    /\ UNCHANGED net
    /\ toasts' = {}
    /\ PromptOnly

(***************************************************************************)
(* Completions of requests.                                                *)
(***************************************************************************)
\* The data of a successful list response: entries and total.
ListData ==
    {d \in [entries : {{}, EntryIds}, total : Totals] :
        Cardinality(d.entries) <= d.total}

NoData == [entries |-> {}, total |-> 0]

\* loadEntries() from its await on, with isLoading reset in the try block only.
applyHoldingOnFailure(r, outcome, data) ==
    /\ IF outcome = "ok"
       THEN /\ entries' = data.entries
            /\ totalEntries' = data.total
            /\ update(currentPage, CeilDiv(data.total, PageSize), data.total)
            /\ emptyState' = (data.entries = {})
            /\ toasts' = {}
       ELSE /\ UNCHANGED <<entries, totalEntries, pagination, emptyState>>
            /\ toasts' = {ErrorToast}
    /\ isLoading' = (outcome # "ok")

\* loadEntries() from its await on, with an empty page treated as a failure.
applyEmptyAsFailure(r, outcome, data) ==
    /\ IF outcome = "ok" /\ data.entries # {}
       THEN /\ entries' = data.entries
            /\ totalEntries' = data.total
            /\ update(currentPage, CeilDiv(data.total, PageSize), data.total)
            /\ emptyState' = FALSE
            /\ toasts' = {}
       ELSE /\ UNCHANGED <<entries, totalEntries, pagination, emptyState>>
            /\ toasts' = {ErrorToast}
    /\ isLoading' = FALSE

\* loadEntries() from its await on, with a failure that clears the list.
applyClearingOnFailure(r, outcome, data) ==
    /\ entries' = IF outcome = "ok" THEN data.entries ELSE {}
    /\ totalEntries' = IF outcome = "ok" THEN data.total ELSE 0
    /\ update(currentPage, CeilDiv(totalEntries', PageSize), totalEntries')
    /\ emptyState' = (entries' = {})
    /\ toasts' = IF outcome = "ok" THEN {} ELSE {ErrorToast}
    /\ isLoading' = FALSE

\* loadEntries() from its await on: the response is applied, or the failure is
\* shown; finally isLoading = false.
applyListResponse(r, outcome, data) ==
    /\ IF outcome = "ok"
       THEN /\ entries' = data.entries
            /\ totalEntries' = data.total
            /\ update(currentPage, CeilDiv(data.total, PageSize), data.total)
            /\ emptyState' = (data.entries = {})
            /\ toasts' = {}
       ELSE /\ UNCHANGED <<entries, totalEntries, pagination, emptyState>>
            /\ toasts' = {ErrorToast}
    /\ isLoading' = FALSE

\* The request r of loadEntries ends with `outcome`.
ListResponseOf(r, outcome, data) ==
    /\ Receive(r, outcome)
    /\ net' = Without(r)
    /\ applyListResponse(r, outcome, data)
    /\ ready' = TRUE
    /\ UNCHANGED <<surface, baseUrl, currentView, currentPage, categories,
                   filterVars, adminVars>>

\* A request of loadEntries ends, a success with one of the pages D; or its
\* body has success true and no data, and applying it throws ("malformed").
ListResponseFrom(D) ==
    \E r \in ListRequests, outcome \in Outcomes \cup {"malformed"} :
      \E data \in IF outcome = "ok" THEN D ELSE {NoData} :
        ListResponseOf(r, outcome, data)

ListResponse == ListResponseFrom(ListData)

\* Filters.loadCategories / AdminApp.loadCategories from the await on
CategoriesResponseOf(r, outcome, data) ==
    /\ r.by \in {"Filters.loadCategories", "AdminApp.loadCategories"}
    /\ Receive(r, outcome)
    /\ net' = Without(r)
    /\ categories' = IF outcome = "ok" THEN data ELSE categories
    /\ toasts' = {}
    /\ UNCHANGED <<surface, ready, baseUrl, currentView, currentPage,
                   isLoading, entries, totalEntries, emptyState,
                   pagination, filterVars, adminVars>>

CategoriesResponse ==
    \E r \in InFlight, outcome \in Outcomes :
      \E data \in IF outcome = "ok" THEN SUBSET CategoryNames ELSE {{}} :
        CategoriesResponseOf(r, outcome, data)

\* A request of loadDashboardStats ends; the dashboard widgets are not modelled.
StatsResponseOf(r, outcome) ==
    /\ r.by = "loadDashboardStats"
    /\ Receive(r, outcome)
    /\ net' = Without(r)
    /\ toasts' = {}
    /\ UNCHANGED <<surface, ready, baseUrl, listVars, filterVars, adminVars>>

StatsResponse ==
    \E r \in InFlight, outcome \in Outcomes : StatsResponseOf(r, outcome)

\* The closure of handleDeleteEntry from its await on
DeleteEntryResponseOf(r, outcome) ==
    /\ r.by = "handleDeleteEntry"
    /\ Receive(r, outcome)
    /\ IF outcome = "ok"
       THEN loadEntriesOn(Without(r), currentPage, filters, {SuccessToast})
       ELSE /\ net' = Without(r)
            /\ toasts' = {ErrorToast}
            /\ UNCHANGED isLoading
    /\ UNCHANGED <<surface, ready, baseUrl, currentView, currentPage,
                   entries, totalEntries, emptyState, categories,
                   pagination, filterVars, adminVars>>

DeleteEntryResponse ==
    \E r \in InFlight, outcome \in Outcomes : DeleteEntryResponseOf(r, outcome)

\* The closure of handleDeleteCategory from its await on, up to the await on
\* loadCategories()
DeleteCategoryResponseOf(r, outcome) ==
    /\ r.by = "handleDeleteCategory"
    /\ Receive(r, outcome)
    /\ IF outcome = "ok"
       THEN /\ loadCategoriesOn(Without(r))
            /\ toasts' = {SuccessToast}
       ELSE /\ net' = Without(r)
            /\ toasts' = {ErrorToast}
    /\ UNCHANGED <<surface, ready, baseUrl, listVars, filterVars, adminVars>>

DeleteCategoryResponse ==
    \E r \in InFlight, outcome \in Outcomes : DeleteCategoryResponseOf(r, outcome)

\* completeAddEntry from its await on
CreateEntryResponseOf(r, outcome) ==
    /\ r.by = "completeAddEntry"
    /\ Receive(r, outcome)
    /\ IF outcome = "ok"
       THEN /\ resetAddEntryForm
            /\ switchViewOn(Without(r), "webList", {SuccessToast})
       ELSE /\ net' = Without(r)
            /\ toasts' = {ErrorToast}
            /\ UNCHANGED <<addForm, addImage, fieldErrors, currentView, isLoading>>
    /\ UNCHANGED <<surface, ready, baseUrl, currentPage, entries, totalEntries,
                   emptyState, categories, pagination, filterVars, promptVars,
                   editModal, editForm, editImage, categoryInput, uploads>>

CreateEntryResponse ==
    \E r \in InFlight, outcome \in Outcomes : CreateEntryResponseOf(r, outcome)

\* completeUpdate from its await on
UpdateEntryResponseOf(r, outcome) ==
    /\ r.by = "completeUpdate"
    /\ Receive(r, outcome)
    /\ IF outcome = "ok"
       THEN /\ editModal' = [editModal EXCEPT !.isOpen = FALSE]
            /\ refreshCurrentViewOn(Without(r))
       ELSE /\ net' = Without(r)
            /\ toasts' = {ErrorToast}
            /\ UNCHANGED <<editModal, isLoading>>
    /\ UNCHANGED <<surface, ready, baseUrl, currentView, currentPage, entries,
                   totalEntries, emptyState, categories, pagination,
                   filterVars, promptVars, addForm, addImage, editForm,
                   editImage, categoryInput, fieldErrors, uploads>>

UpdateEntryResponse ==
    \E r \in InFlight, outcome \in Outcomes : UpdateEntryResponseOf(r, outcome)

\* handleAddCategory from its await on, up to the await on loadCategories()
CreateCategoryResponseOf(r, outcome) ==
    /\ r.by = "handleAddCategory"
    /\ Receive(r, outcome)
    /\ IF outcome = "ok"
       THEN /\ categoryInput' = Empty
            /\ loadCategoriesOn(Without(r))
            /\ toasts' = {SuccessToast}
       ELSE /\ net' = Without(r)
            /\ toasts' = {ErrorToast}
            /\ UNCHANGED categoryInput
    /\ UNCHANGED <<surface, ready, baseUrl, listVars, filterVars, promptVars,
                   editModal, addForm, addImage, editForm, editImage,
                   fieldErrors, uploads>>

CreateCategoryResponse ==
    \E r \in InFlight, outcome \in Outcomes : CreateCategoryResponseOf(r, outcome)

\* updateCategory from its await on, up to the await on loadCategories()
UpdateCategoryResponseOf(r, outcome) ==
    /\ r.by = "updateCategory"
    /\ Receive(r, outcome)
    /\ IF outcome = "ok"
       THEN /\ loadCategoriesOn(Without(r))
            /\ toasts' = {SuccessToast}
       ELSE /\ net' = Without(r)
            /\ toasts' = {ErrorToast}
    /\ UNCHANGED <<surface, ready, baseUrl, listVars, filterVars, adminVars>>

UpdateCategoryResponse ==
    \E r \in InFlight, outcome \in Outcomes : UpdateCategoryResponseOf(r, outcome)

(***************************************************************************)
(* The list pipeline of both surfaces.                                     *)
(***************************************************************************)
ListViews == {"dashboard", "webList"}
ListTexts == {Empty, <<"a", "a", "a">>}
PopFilters == {[search |-> <<"a", "a", "a">>], [category |-> Cat1]}

Next ==
    \/ SearchInput(ListTexts)
    \/ DebounceFire
    \/ SearchEnter
    \/ DateChange
    \/ CategoryChange
    \/ ClearFilters
    \/ EscapeClear
    \/ SetFilters(PopFilters)
    \/ PageClick
    \/ VisibilityRefresh
    \/ SwitchView(ListViews)
    \/ Refresh
    \/ ListResponse
    \/ CategoriesResponse
    \/ StatsResponse

Spec == Init /\ [][Next]_vars

(***************************************************************************)
(* Properties of the list pipeline.                                        *)
(***************************************************************************)
\* The requests a step puts on the network, and the ones it takes off.
Sent == {r \in BagToSet(net') : CopiesIn(r, net') > CopiesIn(r, net)}
ListSent == {r \in Sent : IsListRequest(r)}
Answered == {r \in InFlight : CopiesIn(r, net') < CopiesIn(r, net)}
ListAnswered == {r \in Answered : IsListRequest(r)}

\* C1: at most one list request of loadEntries is outstanding at any time, and
\* no step taken while one is outstanding, a trigger or the completion of that
\* request, issues another: a trigger that meets a running fetch is dropped.
C1_SingleListRequest ==
    /\ [](Outstanding <= 1)
    /\ [][Outstanding >= 1 => ListSent = {}]_vars

\* C1 witness: a list request is outstanding whose parameters are no longer the
\* current page and filters: a trigger arrived during the fetch and was dropped.
C1_TriggerDropped ==
    /\ Outstanding = 1
    /\ \E r \in ListRequests : r.params # ListParams(currentPage, filters)

\* C2: a list response whose request parameters differ from the current page
\* and filters at arrival is discarded: it changes neither the result set nor
\* the pagination controller.
C2_StaleResponseDiscarded ==
    [][\A r \in ListAnswered :
          r.params # ListParams(currentPage, filters)
              => UNCHANGED <<entries, totalEntries, pagination>>]_vars

\* The step is a filter-change notification: a committed query, a date or
\* category change, a clear, or setFilters.
FilterChangeNotified ==
    \/ (DebounceFire \/ SearchEnter)
           /\ IF surface = "user"
              THEN Len(inputText) >= UserMinSearch \/ Len(inputText) = 0
              ELSE validateSearchQuery(inputText)
    \/ \E d \in Dates \cup {NoDate} :
           (surface = "admin" => validateDate(d)) /\ handleDateChange(d) /\ DateChange
    \/ CategoryChange
    \/ ClearFilters
    \/ EscapeClear
    \/ SetFilters(PopFilters)

\* C3: every filter-change notification leaves the current page at 1, and the
\* list request it starts carries page = 1 and the filters just committed.
C3_FilterChangeResetsPage ==
    [][FilterChangeNotified =>
          /\ currentPage' = 1
          /\ \A r \in ListSent : r.params = ListParams(1, filters')]_vars

\* C3 witness: the admin list was on page 2 when a filter was committed; the
\* request now in flight asks for page 1 of the filtered list.
C3_ResetFromPageTwo ==
    /\ surface = "admin"
    /\ pagination.currentPage = 2
    /\ currentPage = 1
    /\ hasActiveFilters(filters)
    /\ \E r \in ListRequests : r.params = ListParams(1, filters)

\* C4: a list request that ends in a failure (success = false, a 401, another
\* non-OK status, a transport error) raises an error toast and leaves entries,
\* totalEntries and the pagination controller as they were.
C4_FailedLoadKeepsList ==
    [][\A r \in ListRequests, outcome \in Outcomes \ {"ok"} :
          ListResponseOf(r, outcome, NoData)
              => /\ ErrorToast \in toasts'
                 /\ UNCHANGED <<entries, totalEntries, pagination>>]_vars

\* C4 witness: the public list holds entries of an earlier load and the last
\* task raised an error: a later load of it has failed.
C4_StaleListAfterFailure ==
    /\ surface = "user"
    /\ entries # {}
    /\ totalEntries = MaxTotal
    /\ toasts = {ErrorToast}
    /\ ~isLoading

(***************************************************************************)
(* The search box of both surfaces, with every text of up to MaxLen        *)
(* characters typed into it, a keystroke at a time.                        *)
(***************************************************************************)
SearchViews == {"webList"}

\* The texts one keystroke makes of s: a character more, or the last one less.
Keystroke(s) ==
    {Append(s, c) : c \in {x \in Chars : Len(s) < MaxLen}}
    \cup {SubSeq(s, 1, Len(s) - 1) : x \in {s} \ {Empty}}

NextSearch ==
    \/ SearchInput(Keystroke(inputText))
    \/ DebounceFire
    \/ SearchEnter
    \/ ClearFilters
    \/ PageClick
    \/ SwitchView(SearchViews)
    \/ ListResponse
    \/ CategoriesResponse

SpecSearch == Init /\ [][NextSearch]_vars

\* The step hands the text of the search box to handleSearchChange.
SearchHandled == DebounceFire \/ SearchEnter

\* C5: on the public page a non-empty text shorter than 2 characters handed to
\* handleSearchChange changes no filter, notifies nobody and starts no fetch;
\* and the committed query is always empty or at least 2 characters long.
C5_PublicQueryGated ==
    /\ [][surface = "user" /\ SearchHandled
             /\ Len(inputText) > 0 /\ Len(inputText) < UserMinSearch
          => UNCHANGED <<filters, currentPage, isLoading, net>>]_vars
    /\ [](surface = "user"
             => filters.search = Empty \/ Len(filters.search) >= UserMinSearch)

\* C6: on the admin page a text whose trimmed form is non-empty and shorter
\* than 3 characters is rejected: the filters, the page and the network are
\* unchanged and the inline error is shown; an empty or whitespace-only text
\* commits the empty query.
C6_AdminQueryGated ==
    [][surface = "admin" /\ SearchHandled =>
          IF trim(inputText) = Empty
          THEN filters'.search = Empty /\ ~searchError' /\ currentPage' = 1
          ELSE Len(trim(inputText)) < AdminMinSearch
                  => /\ UNCHANGED <<filters, currentPage, isLoading, net>>
                     /\ Sent = {}
                     /\ searchError']_vars

\* C6 witness: the admin list is filtered by a committed query on page 2, the
\* box holds a two-character text and the inline error is shown: the text was
\* rejected and the committed query kept.
C6_RejectedQueryKept ==
    /\ surface = "admin"
    /\ searchError
    /\ timer = 0
    /\ Len(trim(inputText)) = 2
    /\ filters.search = <<"a", "a", "a">>
    /\ currentPage = 2

(***************************************************************************)
(* The admin list and the categories list, with the delete prompt.         *)
(***************************************************************************)
DeleteViews == {"webList", "addCategory"}

NextDelete ==
    \/ SwitchView(DeleteViews)
    \/ DeleteClick
    \/ DeleteCategoryClick
    \/ ConfirmDelete
    \/ CancelDelete
    \/ EditCategory
    \/ ListResponse
    \/ CategoriesResponse
    \/ DeleteEntryResponse
    \/ DeleteCategoryResponse
    \/ UpdateCategoryResponse

SpecDelete == InitAdmin /\ [][NextDelete]_vars

\* The arguments handleDeleteEntry is called with for entry i.
TargetOf(i) ==
    [kind |-> "entry", sheetName |-> EntryOf(i).sheetName,
     serial |-> EntryOf(i).serial, imageFileId |-> EntryOf(i).imageFileId]

\* C7: a request to the delete-entry endpoint is sent only by the confirm
\* button of the open prompt, once, with the sheet name, serial and image file
\* id of the entry the prompt was last opened for; opening the prompt and
\* cancelling it send nothing; a confirmation for an entry sends the request.
C7_DeleteOnlyOnConfirm ==
    [][/\ \A r \in Sent :
            r.endpoint = "/entries/delete"
                => /\ deleteModal.isOpen
                   /\ ~deleteModal'.isOpen
                   /\ deleteModal.deleteCallback.kind = "entry"
                   /\ r.body =
                        [sheetName |-> deleteModal.deleteCallback.sheetName,
                         rowSerial |-> deleteModal.deleteCallback.serial,
                         imageFileId |-> deleteModal.deleteCallback.imageFileId]
                   /\ Sent = {r}
                   /\ CopiesIn(r, net') = CopiesIn(r, net) + 1
       /\ \A i \in entries :
            DeleteClickOf(i)
                => Sent = {} /\ deleteModal' = [isOpen |-> TRUE,
                                                deleteCallback |-> TargetOf(i)]
       /\ CancelDelete => Sent = {}
       /\ (ConfirmDelete /\ deleteModal.deleteCallback.kind = "entry")
            => \E r \in Sent : r.endpoint = "/entries/delete"]_vars

\* C7 witness: the prompt was opened for the second entry and confirmed; the
\* delete request in flight names that entry, which has no image.
C7_DeleteRequestOfPrompt ==
    /\ ~deleteModal.isOpen
    /\ deleteModal.deleteCallback = TargetOf("e2")
    /\ \E r \in InFlight :
          /\ r.endpoint = "/entries/delete"
          /\ r.body = [sheetName |-> Cat1, rowSerial |-> "e2", imageFileId |-> ""]

(***************************************************************************)
(* The add-entry form.                                                     *)
(***************************************************************************)
AddViews == {"addEntry"}

\* The valid form, and forms that fail one check.
AddInputs ==
    {ValidForm,
     [ValidForm EXCEPT !.name = <<"a">>],
     [ValidForm EXCEPT !.url = <<"a">>]}

NextAdd ==
    \/ SwitchView(AddViews)
    \/ FillAddForm(AddInputs)
    \/ SelectImage
    \/ RemoveImage
    \/ ResetForm
    \/ SubmitAdd
    \/ ProgressTick({ProgressCap})
    \/ UploadDone
    \/ CreateEntryResponse
    \/ ListResponse

SpecAdd == InitAdmin /\ [][NextAdd]_vars

\* The submits a step hands to simulateUploadProgress, and the ones whose
\* callback it runs.
UploadsAdded ==
    {u \in BagToSet(uploads') :
        u.progress = 0 /\ CopiesIn(u, uploads') > CopiesIn(u, uploads)}
UploadsRun ==
    {u \in BagToSet(uploads) :
        u.progress = ProgressCap /\ CopiesIn(u, uploads') < CopiesIn(u, uploads)}
AddFormValid == validateEntryForm(FormData(addForm, addImage)).valid
AddFormHasImage == "imageFile" \in DOMAIN FormData(addForm, addImage)

\* C8: selecting, removing or resetting the image sends nothing and starts no
\* upload; an upload is started only by a submit whose form validates, once,
\* with the image the input holds; a create request is sent once, either by
\* the callback of such an upload, with its image, or by a validated submit
\* of a form without image; and the callback of an upload sends its request.
C8_ImageCommitOnSubmit ==
    [][/\ (SelectImage \/ RemoveImage \/ ResetForm)
            => Sent = {} /\ UNCHANGED uploads
       /\ \A u \in UploadsAdded :
            /\ SubmitAdd
            /\ AddFormValid
            /\ AddFormHasImage
            /\ u.formData.image = addImage
            /\ UploadsAdded = {u}
            /\ CopiesIn(u, uploads') = CopiesIn(u, uploads) + 1
            /\ Sent = {}
       /\ \A r \in Sent :
            r.endpoint = "/entries/create"
                => /\ Sent = {r}
                   /\ CopiesIn(r, net') = CopiesIn(r, net) + 1
                   /\ IF "image" \in DOMAIN r.body
                      THEN UploadsRun = {[callback |-> "completeAddEntry",
                                          formData |-> r.body,
                                          progress |-> ProgressCap]}
                      ELSE SubmitAdd /\ AddFormValid /\ ~AddFormHasImage
       /\ (SubmitAdd /\ AddFormValid /\ AddFormHasImage) => UploadsAdded # {}
       /\ UploadDone
            => \A u \in UploadsRun : \E r \in Sent : r.body = u.formData]_vars

\* C8 witness: a create request carrying the selected image is in flight, and
\* the image input has been emptied since the submit.
C8_ImageRequestInFlight ==
    /\ addImage = NoFile
    /\ uploads = EmptyBag
    /\ \E r \in InFlight :
          /\ r.endpoint = "/entries/create"
          /\ "image" \in DOMAIN r.body
          /\ r.body.image = [type |-> "image/png", size |-> 1]

(***************************************************************************)
(* The submits of the three admin forms, with no image selected.  The      *)
(* session starts with one of the three views opened: the Web List with    *)
(* its first page loaded (for the edit form), the add-entry form, or the   *)
(* add-category form.                                                      *)
(***************************************************************************)
SubmitViews == {"webList", "addEntry", "addCategory"}
SubmitInputs == {ValidForm, [ValidForm EXCEPT !.name = <<"a">>],
                 [ValidForm EXCEPT !.url = <<"a">>],
                 [ValidForm EXCEPT !.category = NoCategory]}
SubmitTexts == {<<"a">>, <<"a", "!">>, <<"a", "a">>}

InitIn(V) ==
    /\ surface = "admin"
    /\ location = "admin"
    /\ token = SessionToken
    /\ storage = [adminToken |-> SessionToken, tokenExpires |-> ExpiresAt]
    /\ InitSession
    /\ baseUrl \in {"", BackendUrl}
    /\ InitConfigured
    /\ categories = IF baseUrl = "" THEN {} ELSE CategoryNames
    /\ urlParams = NoQuery
    /\ currentView \in V
    /\ currentView = "webList" => baseUrl # ""
    /\ currentPage = 1
    /\ entries = IF currentView = "webList" THEN EntryIds ELSE {}
    /\ totalEntries = IF currentView = "webList" THEN MaxTotal ELSE 0
    /\ pagination = IF currentView = "webList"
                    THEN [currentPage |-> 1,
                          totalPages |-> CeilDiv(MaxTotal, PageSize),
                          totalItems |-> MaxTotal]
                    ELSE [currentPage |-> 1, totalPages |-> 1, totalItems |-> 0]
    /\ emptyState = FALSE
    /\ filters = NoFilters
    /\ inputText = Empty
    /\ timer = 0
    /\ searchError = FALSE
    /\ deleteModal = [isOpen |-> FALSE, deleteCallback |-> NoCallback]
    /\ editModal = [isOpen |-> FALSE, currentData |-> NoEntry]
    /\ addForm = BlankForm
    /\ addImage = NoFile
    /\ editForm = BlankEditForm
    /\ editImage = NoFile
    /\ categoryInput = Empty
    /\ fieldErrors = NoErrors
    /\ uploads = EmptyBag
    /\ ready = TRUE
    /\ isLoading = FALSE
    /\ net = EmptyBag
    /\ toasts = {}

InitSubmit == InitIn(SubmitViews)

NextSubmit ==
    \/ FillAddForm(SubmitInputs)
    \/ SubmitAdd
    \/ CreateEntryResponse
    \/ EditClick
    \/ FillEditForm(SubmitInputs)
    \/ SubmitEdit
    \/ CloseEdit
    \/ UpdateEntryResponse
    \/ TypeCategory(SubmitTexts)
    \/ SubmitCategory
    \/ CreateCategoryResponse
    \/ CategoriesResponse
    \/ ListResponse

SpecSubmit == InitSubmit /\ [][NextSubmit]_vars

EditFormValid == validateEntryForm(FormData(editForm, editImage)).valid
CategoryFormValid == validateCategoryForm([name |-> categoryInput]).valid

\* C9: a submit of the add-entry form, of the edit form or of the add-category
\* form whose validation reports an error sends no request, starts no upload,
\* and leaves the fields at fault marked in that form.
C9_InvalidSubmitSendsNothing ==
    [][/\ (SubmitAdd /\ ~AddFormValid)
            => /\ Sent = {}
               /\ UNCHANGED uploads
               /\ fieldErrors'["addEntry"] # {}
               /\ fieldErrors'["addEntry"]
                    = validateEntryForm(FormData(addForm, addImage)).errors
       /\ (SubmitEdit /\ ~EditFormValid)
            => /\ Sent = {}
               /\ UNCHANGED uploads
               /\ fieldErrors'["editEntry"] # {}
               /\ fieldErrors'["editEntry"]
                    = validateEntryForm(FormData(editForm, editImage)).errors
       /\ (SubmitCategory /\ ~CategoryFormValid)
            => /\ Sent = {}
               /\ fieldErrors'["addCategory"] = {"name"}]_vars

\* C9 witness: the edit form was submitted with a name that is too short; the
\* name field is marked and nothing is on the network.
C9_EditRejected ==
    /\ editModal.isOpen
    /\ editForm.name = <<"a">>
    /\ fieldErrors["editEntry"] = {"name"}
    /\ net = EmptyBag

\* C10: every request the admin client puts on the network while it holds a
\* token carries the header Authorization: Bearer <that token>.
C10_BearerOnEveryRequest ==
    \A r \in InFlight :
        (surface = "admin" /\ r.held # NoToken)
            => /\ "Authorization" \in DOMAIN r.headers
               /\ r.headers["Authorization"] = Bearer(r.held)

(***************************************************************************)
(* The session of the admin page: the clock, the logout prompt, the 401    *)
(* branch of request() and the check made when the page becomes visible.   *)
(***************************************************************************)
\* AdminApp.isAuthenticated()
isAuthenticated ==
    /\ storage.adminToken # NoToken
    /\ storage.tokenExpires # NoExpiry
    /\ clock < storage.tokenExpires

\* AdminAPI.isTokenExpired()
isTokenExpired ==
    \/ storage.tokenExpires = NoExpiry
    \/ clock > storage.tokenExpires

\* AdminAPI.isAuthenticated()
apiIsAuthenticated == token # NoToken /\ ~isTokenExpired

\* The quiet part of a task of the session.
SessionOnly ==
    UNCHANGED <<surface, ready, baseUrl, configVars, urlVars, listVars,
                filterVars, adminVars>>

\* Time passes.
Tick ==
    /\ clock < MaxClock
    /\ clock' = clock + 1
    /\ UNCHANGED <<location, token, storage, logoutModal, redirectArmed, net,
                   toasts>>
    /\ SessionOnly

\* 'click' on the logout button: LogoutModal.open()
LogoutClick ==
    /\ Loaded
    /\ surface = "admin"
    /\ ~logoutModal
    /\ logoutModal' = TRUE
    /\ toasts' = {}
    /\ UNCHANGED <<location, token, storage, clock, redirectArmed, net>>
    /\ SessionOnly

\* AdminModal.close() of the logout prompt: cancel, close, backdrop or Escape
CancelLogout ==
    /\ Loaded
    /\ logoutModal
    /\ logoutModal' = FALSE
    /\ toasts' = {}
    /\ UNCHANGED <<location, token, storage, clock, redirectArmed, net>>
    /\ SessionOnly

\* AdminAPI.logout() up to the fetch.  request() is called without await and
\* stops at its own `await this.init()`; the finally block of logout() runs
\* clearToken(), and request() goes on from there with the token it finds.
logout ==
    /\ clearToken
    /\ IF baseUrl = ""
       THEN /\ net' = net
            /\ toasts' = {ErrorToast}
       ELSE /\ Room(1)
            /\ net' = net (+) One(FetchAs(token',
                                          [endpoint |-> "/auth/logout",
                                           params |-> NoRec,
                                           options |-> [method |-> "POST"]],
                                          "handleLogout"))
            /\ toasts' = {}

\* 'click' on the confirm button of the logout prompt:
\* LogoutModal.handleLogout() up to its await
ConfirmLogout ==
    /\ Loaded
    /\ logoutModal
    /\ logout
    /\ UNCHANGED <<location, clock, logoutModal, redirectArmed>>
    /\ SessionOnly

\* LogoutModal.handleLogout() from its await on: any response that request()
\* returns arms the redirect; an error it throws is shown.
LogoutResponseOf(r, outcome) ==
    /\ r.by = "handleLogout"
    /\ Loaded
    /\ net' = Without(r)
    /\ IF outcome = "unauthorized"
       THEN handleUnauthorized
       ELSE UNCHANGED <<token, storage, location>>
    /\ IF outcome \in {"ok", "fail"}
       THEN toasts' = {SuccessToast} /\ redirectArmed' = TRUE
       ELSE toasts' = {ErrorToast} /\ UNCHANGED redirectArmed
    /\ UNCHANGED <<clock, logoutModal>>
    /\ SessionOnly

LogoutResponse ==
    \E r \in InFlight, outcome \in Outcomes : LogoutResponseOf(r, outcome)

\* The timeout of handleLogout fires: window.location.href = '../user/'
RedirectFire ==
    /\ Loaded
    /\ redirectArmed
    /\ redirectArmed' = FALSE
    /\ location' = "user"
    /\ UNCHANGED <<token, storage, clock, logoutModal, net, toasts>>
    /\ SessionOnly

\* 'visibilitychange' on the admin page, the page being visible
VisibilityCheck ==
    /\ Loaded
    /\ surface = "admin"
    /\ location' = IF isAuthenticated THEN location ELSE "user"
    /\ UNCHANGED <<token, storage, clock, logoutModal, redirectArmed, net,
                   toasts>>
    /\ SessionOnly

\* The admin page with its requests of every kind, and their 401 answers.
SessionViews == SubmitViews \cup {"dashboard"}

InitSessionViews == InitIn(SessionViews)

NextSession ==
    \/ LogoutClick
    \/ ConfirmLogout
    \/ LogoutResponse
    \/ Refresh
    \/ ListResponse
    \/ CategoriesResponse
    \/ StatsResponse
    \/ DeleteClick
    \/ ConfirmDelete
    \/ DeleteEntryResponse
    \/ DeleteCategoryClick
    \/ DeleteCategoryResponse
    \/ EditCategory
    \/ UpdateCategoryResponse
    \/ TypeCategory({Cat1})
    \/ SubmitCategory
    \/ CreateCategoryResponse
    \/ FillAddForm({ValidForm})
    \/ SubmitAdd
    \/ CreateEntryResponse
    \/ EditClick
    \/ SubmitEdit
    \/ UpdateEntryResponse

SpecSession == InitSessionViews /\ [][NextSession]_vars

\* The step answers request r with a 401.
Unauthorized(r) ==
    \/ \E data \in {NoData} : ListResponseOf(r, "unauthorized", data)
    \/ \E data \in {{}} : CategoriesResponseOf(r, "unauthorized", data)
    \/ StatsResponseOf(r, "unauthorized")
    \/ DeleteEntryResponseOf(r, "unauthorized")
    \/ DeleteCategoryResponseOf(r, "unauthorized")
    \/ CreateEntryResponseOf(r, "unauthorized")
    \/ UpdateEntryResponseOf(r, "unauthorized")
    \/ CreateCategoryResponseOf(r, "unauthorized")
    \/ UpdateCategoryResponseOf(r, "unauthorized")
    \/ LogoutResponseOf(r, "unauthorized")

\* C12: when a request of the admin page is answered with a 401, the token is
\* cleared from memory and adminToken and tokenExpires from session storage,
\* the page is sent to the public surface, and the caller takes its failure
\* path (no success is reported, the lists stay as they are); from then on
\* neither isAuthenticated holds: in every state without a token in memory or
\* in storage both are false.
C12_UnauthorizedEndsSession ==
    /\ [][\A r \in InFlight :
            Unauthorized(r)
                => /\ token' = NoToken
                   /\ storage' = NoStorage
                   /\ location' = "user"
                   /\ SuccessToast \notin toasts'
                   /\ UNCHANGED <<entries, totalEntries, categories>>
                   /\ ~isAuthenticated'
                   /\ ~apiIsAuthenticated']_vars
    /\ [](storage = NoStorage => ~isAuthenticated /\ ~apiIsAuthenticated)
    /\ [][storage = NoStorage => storage' = NoStorage]_vars

\* C12 witness: the request of a confirmed delete was answered with a 401; the
\* page has left for the public surface with the session cleared, and no
\* logout was asked for.
C12_SessionEndedBy401 ==
    /\ location = "user"
    /\ token = NoToken
    /\ storage = NoStorage
    /\ ~logoutModal
    /\ ~redirectArmed
    /\ toasts = {ErrorToast}
    /\ deleteModal.deleteCallback = TargetOf("e1")
    /\ ~deleteModal.isOpen
    /\ net = EmptyBag

(***************************************************************************)
(* The logout prompt and the visibility check, with the clock running.     *)
(***************************************************************************)
NextLogout ==
    \/ Tick
    \/ LogoutClick
    \/ CancelLogout
    \/ ConfirmLogout
    \/ LogoutResponse
    \/ RedirectFire
    \/ VisibilityCheck
    \/ Refresh
    \/ StatsResponse

SpecLogout == InitAdmin /\ [][NextLogout]_vars

\* The answers and the timeout are scheduled by the browser; the user owes the
\* page no further event.
SpecLogoutFair ==
    SpecLogout /\ WF_vars(LogoutResponse) /\ WF_vars(RedirectFire)

\* C11: the logout request carries Authorization: Bearer <the token held when
\* logout was invoked>, and the token is cleared from memory and from session
\* storage, with the expiry, by the time the confirm step ends, whatever
\* becomes of the request.
C11_LogoutCarriesBearer ==
    [][ConfirmLogout
          => /\ token' = NoToken
             /\ storage' = NoStorage
             /\ \A r \in Sent :
                   r.endpoint = "/auth/logout"
                       => /\ "Authorization" \in DOMAIN r.headers
                          /\ r.headers["Authorization"] = Bearer(token)]_vars

\* C13: whenever the logout was confirmed - the admin page is loaded and holds
\* no token - the page is eventually sent to the public surface.
C13_LogoutRedirects ==
    (surface = "admin" /\ Loaded /\ token = NoToken) ~> (location = "user")

\* C14: a visibility change that finds the session unauthenticated sends the
\* page to the public surface and leaves session storage without adminToken
\* and tokenExpires.
C14_ExpiryCheckClearsStorage ==
    [][(VisibilityCheck /\ ~isAuthenticated)
          => location' = "user" /\ storage' = NoStorage]_vars

(***************************************************************************)
(* The image input and the progress bar of the add-entry form.             *)
(***************************************************************************)
\* C15: a file of a type outside the allowed ones, or over the size limit, is
\* rejected with the selection made before it untouched - the file a later
\* submit would send is still the earlier one - and no request is sent; a
\* valid file becomes the selection, with no request sent.
C15_RejectedImageKeepsSelection ==
    [][\A file \in Files :
          (handleImagePreview(file) /\ SelectImage)
              => /\ Sent = {}
                 /\ UNCHANGED uploads
                 /\ IF validateImageFile(file)
                    THEN addImage' = file
                    ELSE FormData(addForm', addImage')
                             = FormData(addForm, addImage)]_vars

\* The steps Math.random() * 15 can add, in whole percents.
ProgressSteps == {0, 7, MaxStep}

InitProgress == InitIn(AddViews)

NextProgress ==
    \/ FillAddForm({ValidForm})
    \/ SelectImage
    \/ SubmitAdd
    \/ ProgressTick(ProgressSteps)
    \/ UploadDone
    \/ CreateEntryResponse
    \/ ListResponse

SpecProgress == InitProgress /\ [][NextProgress]_vars

\* The pending uploads a step takes away, and the ones it puts in.
UploadsOut ==
    {u \in BagToSet(uploads) : CopiesIn(u, uploads') < CopiesIn(u, uploads)}
UploadsIn ==
    {u \in BagToSet(uploads') : CopiesIn(u, uploads') > CopiesIn(u, uploads)}

\* C16 (first half): the values the interval of a submit writes into the bar
\* never decrease.
ProgressNeverDecreases ==
    [][ProgressTick(ProgressSteps)
          => \A u \in UploadsOut, v \in UploadsIn : v.progress >= u.progress]_vars

\* C16: the values the interval of a submit writes into the bar never
\* decrease, and the bar is full (100%) when the create request of the submit
\* goes out and succeeds.
C16_ProgressReachesFull ==
    [][/\ ProgressTick(ProgressSteps)
            => \A u \in UploadsOut, v \in UploadsIn : v.progress >= u.progress
       /\ UploadDone
            => \A u \in UploadsOut : u.progress = FullProgress]_vars

(***************************************************************************)
(* The pagination bar of the entries list, over lists of up to MaxPages    *)
(* pages.  handlePageClick is run for every button the bar can hold and,   *)
(* as a method of the controller, for page numbers a bar never holds.      *)
(***************************************************************************)
PageCounts == 0..MaxPages
PageData ==
    {[entries |-> IF k = 0 THEN {} ELSE EntryIds, total |-> PageSize * k] :
        k \in PageCounts}

AnyButtons ==
    {[page |-> "prev", n |-> 0], [page |-> "next", n |-> 0]}
    \cup {[page |-> "page", n |-> k] : k \in 0..(MaxPages + 1)}

InitPages == InitIn({"webList"})

NextPages ==
    \/ PageClickOn(AnyButtons)
    \/ Refresh
    \/ ListResponseFrom(PageData)

SpecPages == InitPages /\ [][NextPages]_vars

\* The current page of the controller p is one of its pages.
InRange(p) == p.totalPages >= 1 /\ p.currentPage \in 1..p.totalPages

\* C17: with totalPages >= 1 and the current page in 1..totalPages, the window
\* is every page when totalPages <= 7; otherwise 1,2,3,4,5,...,last when
\* current <= 4; 1,...,last-4..last when current >= last-3; and
\* 1,...,current-1,current,current+1,...,last in between.  With ten pages:
\* page 1 gives 1,2,3,4,5,...,10, page 10 gives 1,...,6,7,8,9,10 and page 5
\* gives 1,...,4,5,6,...,10.
C17_PageWindows ==
    LET cur == pagination.currentPage
        last == pagination.totalPages
        w == getPageNumbers(pagination)
    IN  InRange(pagination) =>
          /\ last <= 7 => w = [i \in 1..last |-> i]
          /\ last > 7 /\ cur <= 4 => w = <<1, 2, 3, 4, 5, Ellipsis, last>>
          /\ last > 7 /\ cur > 4 /\ cur >= last - 3
                => w = <<1, Ellipsis, last - 4, last - 3, last - 2, last - 1, last>>
          /\ last > 7 /\ cur > 4 /\ cur < last - 3
                => w = <<1, Ellipsis, cur - 1, cur, cur + 1, Ellipsis, last>>
          /\ last = 10 /\ cur = 1 => w = <<1, 2, 3, 4, 5, Ellipsis, 10>>
          /\ last = 10 /\ cur = 10 => w = <<1, Ellipsis, 6, 7, 8, 9, 10>>
          /\ last = 10 /\ cur = 5 => w = <<1, Ellipsis, 4, 5, 6, Ellipsis, 10>>

\* C17 witness: page 5 of ten, the window with an ellipsis on either side.
C17_MiddleWindow ==
    /\ pagination.totalPages = 10
    /\ pagination.currentPage = 5

\* C18: from a current page in range, 'prev' and 'next' ask for a page in
\* 1..totalPages; a click that asks for a page below 1, above totalPages or for
\* the current page leaves the controller and the page of the orchestrator as
\* they are and sends nothing; any other click makes the page asked for the
\* current page, hands it to the page-change callback (the orchestrator's page
\* becomes it, and the one request it may send asks for it), and the current
\* page is still in range.
C18_ClicksStayInRange ==
    [][\A b \in AnyButtons :
          (InRange(pagination) /\ PageClickOn({b})) =>
            LET cur == pagination.currentPage
                last == pagination.totalPages
                target == CASE b.page = "prev" -> IF cur = 1 THEN 1 ELSE cur - 1
                            [] b.page = "next" -> IF cur = last THEN last
                                                  ELSE cur + 1
                            [] OTHER -> b.n
            IN  /\ b.page \in {"prev", "next"} => target \in 1..last
                /\ IF target \in 1..last /\ target # cur
                   THEN /\ pagination' = [pagination EXCEPT !.currentPage = target]
                        /\ currentPage' = target
                        /\ Cardinality(Sent) <= 1
                        /\ \A r \in Sent :
                              IsListRequest(r) /\ r.params.page = target
                   ELSE /\ UNCHANGED <<pagination, currentPage>>
                        /\ Sent = {}
                /\ InRange(pagination')]_vars

\* C18 witness: a click moved the list off its first page and its request is
\* in flight.
C18_PageChanged ==
    /\ InRange(pagination)
    /\ pagination.currentPage > 1
    /\ currentPage = pagination.currentPage
    /\ \E r \in ListRequests : r.params.page = currentPage

\* The states a pagination controller can be in before an update.
Controllers ==
    [currentPage : 1..MaxPages, totalPages : PageCounts,
     totalItems : {0, PageSize * MaxPages}]

\* C19: the update a list response runs leaves the controller its three
\* arguments describe whatever the controller was before, a second update with
\* the same arguments changes neither the controller nor the window rendered,
\* and the step sends no request and leaves the page of the orchestrator as it
\* is (no page-change callback).
C19_UpdateFromArguments ==
    [][\A r \in ListRequests, data \in PageData :
          ListResponseOf(r, "ok", data) =>
            LET pages == CeilDiv(data.total, PageSize)
                once == updated(pagination, currentPage, pages, data.total)
                twice == updated(once, currentPage, pages, data.total)
            IN  /\ pagination' = once
                /\ twice = once
                /\ render(twice) = render(once)
                /\ \A q \in Controllers :
                      /\ updated(q, currentPage, pages, data.total) = once
                      /\ render(updated(q, currentPage, pages, data.total))
                            = render(once)
                /\ Sent = {}
                /\ currentPage' = currentPage]_vars

\* C19 witness: an update has left a list of more than seven pages with the
\* current page past the fourth, and no request is running.
C19_UpdatedLongList ==
    /\ pagination.totalPages > MaxVisible
    /\ pagination.totalItems = PageSize * pagination.totalPages
    /\ pagination.currentPage > 4
    /\ ~isLoading
    /\ ListRequests = {}

\* C20: the parameters got from the filters hold search, category, startDate
\* and endDate exactly for the filter values that are not empty, each with its
\* filter value, the two dates both being the date filter; and every list
\* request in flight has startDate if and only if it has endDate, the two
\* being equal.
C20_ParamsFollowFilters ==
    LET p == getAPIParams(filters) IN
    /\ DOMAIN p = {k \in {"search"} : filters.search # Empty}
                  \cup {k \in {"startDate", "endDate"} : filters.date # NoDate}
                  \cup {k \in {"category"} : filters.category # NoCategory}
    /\ filters.search # Empty => p.search = filters.search
    /\ filters.category # NoCategory => p.category = filters.category
    /\ filters.date # NoDate
         => p.startDate = filters.date /\ p.endDate = filters.date
    /\ \A r \in ListRequests :
         /\ "startDate" \in DOMAIN r.params <=> "endDate" \in DOMAIN r.params
         /\ "startDate" \in DOMAIN r.params
              => r.params.startDate = r.params.endDate

\* C20 witness: a list request in flight carries a date and a search, got from
\* filters with no category.
C20_DatedRequest ==
    \E r \in ListRequests :
        /\ {"startDate", "endDate", "search"} \subseteq DOMAIN r.params
        /\ "category" \notin DOMAIN r.params

(***************************************************************************)
(* The list requests of the two orchestrators and the page count their     *)
(* answers give, over totals of no page, one full page and a page and a    *)
(* part.                                                                   *)
(***************************************************************************)
LoadTotals == {0, PageSize, PageSize + 3}
LoadData ==
    {d \in [entries : {{}, EntryIds}, total : LoadTotals] :
        Cardinality(d.entries) <= d.total}

NextLoad ==
    \/ DateChange
    \/ CategoryChange
    \/ ClearFilters
    \/ PageClick
    \/ VisibilityRefresh
    \/ SwitchView(ListViews)
    \/ Refresh
    \/ ListResponseFrom(LoadData)
    \/ CategoriesResponse
    \/ StatsResponse

SpecLoad == Init /\ [][NextLoad]_vars

\* C21: every list request a step sends has size 12 and, as its page, the
\* current page of the orchestrator as that step leaves it; and a successful
\* list response hands the pagination controller the least number of pages
\* of 12 that hold the total: 2 for 15, 1 for 12, 0 for 0.
C21_ListRequestShape ==
    [][/\ \A r \in ListSent :
             r.params.size = 12 /\ r.params.page = currentPage'
       /\ \A r \in ListRequests, data \in LoadData :
             ListResponseOf(r, "ok", data) =>
               /\ \E n \in 0..data.total :
                     /\ n * 12 >= data.total
                     /\ n > 0 => (n - 1) * 12 < data.total
                     /\ pagination'.totalPages = n
               /\ data.total = 15 => pagination'.totalPages = 2
               /\ data.total = 12 => pagination'.totalPages = 1
               /\ data.total = 0 => pagination'.totalPages = 0]_vars

\* C21 witness: fifteen entries made two pages, and the request for the second
\* page is in flight.
C21_SecondPageRequested ==
    /\ pagination.totalItems = 15
    /\ pagination.totalPages = 2
    /\ currentPage = 2
    /\ \E r \in ListRequests : r.params.page = 2 /\ r.params.size = 12

(***************************************************************************)
(* The address of an entry: what a submit sends, and what validateUrl      *)
(* takes.                                                                  *)
(***************************************************************************)
\* The address u trimmed, with https:// put before it when it has no scheme.
Normalized(u) ==
    IF trim(u) # Empty /\ Head(trim(u)) \in Schemes
    THEN trim(u)
    ELSE <<"https://">> \o trim(u)

\* The form data a step sends or hands to an upload bar.
BodiesOut ==
    {r.body : r \in {q \in Sent : q.endpoint \in {"/entries/create",
                                                   "/entries/update"}}}
    \cup {u.formData : u \in UploadsAdded}

\* C22: a submit of the add-entry form or of the edit form that passes
\* validation sends, as url, the address of the form normalized: trimmed, and
\* with https:// before it when it has no scheme.
C22_SubmitsSendNormalizedUrl ==
    [][/\ (SubmitAdd /\ AddFormValid)
            => \A body \in BodiesOut : body.url = Normalized(addForm.url)
       /\ (SubmitEdit /\ EditFormValid)
            => \A body \in BodiesOut : body.url = Normalized(editForm.url)]_vars

\* C22 (the add-entry form alone): a submit that passes validation sends the
\* address normalized.
AddSendsNormalizedUrl ==
    [][(SubmitAdd /\ AddFormValid)
            => \A body \in BodiesOut : body.url = Normalized(addForm.url)]_vars

UrlChars == {"a", ".", " ", "/"}
NoUrlForm == [ValidForm EXCEPT !.url = Empty]

\* The user types one more character into the url field of the add-entry
\* form; a scheme is typed at the front of the address only.
TypeUrl(C) ==
    \E c \in C \cup Schemes :
        /\ currentView = "addEntry"
        /\ addForm.name # Empty
        /\ Cardinality({k \in DOMAIN addForm.url : addForm.url[k] \notin Schemes})
             < MaxUrlLen
        /\ c \in Schemes => \A k \in DOMAIN addForm.url : IsSpace(addForm.url[k])
        /\ addForm' = [addForm EXCEPT !.url = Append(@, c)]
        /\ UNCHANGED <<editModal, addImage, editForm, editImage, categoryInput,
                       fieldErrors, uploads, net>>
        /\ toasts' = {}
        /\ FormOnly

InitUrl == InitIn(AddViews)

\* The other fields are filled first; the address is then typed and the form
\* submitted, any number of times.
NextUrl ==
    \/ (addForm = BlankForm /\ FillAddForm({NoUrlForm}))
    \/ TypeUrl(UrlChars)
    \/ SubmitAdd

SpecUrl == InitUrl /\ [][NextUrl]_vars

\* The host of the address w, which starts with a scheme: what follows the
\* scheme from the first character that is no slash up to the next slash.
HostOf(w) ==
    LET rest == Tail(w)
        from == IF \A k \in DOMAIN rest : rest[k] = "/" THEN Len(rest) + 1
                ELSE CHOOSE k \in DOMAIN rest :
                        /\ rest[k] # "/"
                        /\ \A j \in 1..(k - 1) : rest[j] = "/"
        to == IF \A k \in from..Len(rest) : rest[k] # "/" THEN Len(rest)
              ELSE (CHOOSE k \in from..Len(rest) :
                        /\ rest[k] = "/"
                        /\ \A j \in from..(k - 1) : rest[j] # "/") - 1
    IN  SubSeq(rest, from, to)

\* The address u is one the claim has accepted: not blank and, normalized, with
\* a host that is not empty, holds no blank, and ends in a dot and two letters
\* or more.
Acceptable(u) ==
    /\ trim(u) # Empty
    /\ LET host == HostOf(Normalized(u)) IN
        /\ host # Empty
        /\ \A k \in DOMAIN host : host[k] # " "
        /\ \E n \in 2..(Len(host) - 1) :
              /\ host[Len(host) - n] = "."
              /\ \A j \in (Len(host) - n + 1)..Len(host) : host[j] = "a"

\* C23: a submit of the add-entry form, its other fields valid, is accepted
\* exactly when the address, trimmed and given https:// when it has no scheme,
\* has a host that parses and ends in a dot and at least two letters.  An
\* accepted address is sent with a scheme at its front, unchanged but for the
\* trimming when it had one; a rejected address marks the url field, yields
\* no url and sends nothing.  a.aa is sent as https://a.aa; "a a" is rejected.
C23_UrlAccepted ==
    [][(SubmitAdd /\ addForm.name = ValidName) =>
          LET u == addForm.url
              result == validateUrl(u)
          IN  /\ result.valid <=> Acceptable(u)
              /\ IF Acceptable(u)
                 THEN /\ result.url = Normalized(u)
                      /\ Head(result.url) \in Schemes
                      /\ Head(trim(u)) \in Schemes => result.url = trim(u)
                      /\ UNCHANGED fieldErrors
                      /\ \A r \in Sent : r.body.url = result.url
                      /\ baseUrl # "" => Sent # {}
                 ELSE /\ DOMAIN result = {"valid", "message"}
                      /\ "url" \in fieldErrors'["addEntry"]
                      /\ Sent = {}
              /\ u = <<"a", ".", "a", "a">>
                    => \A r \in Sent : r.body.url = <<"https://", "a", ".", "a", "a">>
              /\ u = <<"a", " ", "a">> => ~result.valid]_vars

\* C23 witness: an address typed with a blank before it and no scheme was
\* accepted and is on its way as https://a.aa, after an earlier submit of the
\* address had been rejected.
C23_AcceptedAfterRejection ==
    /\ addForm.url = <<" ", "a", ".", "a", "a">>
    /\ "url" \in fieldErrors["addEntry"]
    /\ \E r \in InFlight :
          /\ r.endpoint = "/entries/create"
          /\ r.body.url = <<"https://", "a", ".", "a", "a">>

(***************************************************************************)
(* The list after a delete and after an update.                            *)
(***************************************************************************)
\* C24: the step in which a delete of an entry is answered with a success
\* sends a list request for the current page, which the step leaves as it
\* was, whatever else is in flight.
C24_DeleteRefetchesPage ==
    [][\A r \in InFlight :
          DeleteEntryResponseOf(r, "ok")
              => /\ currentPage' = currentPage
                 /\ \E q \in ListSent : q.params.page = currentPage]_vars

\* C25: the step in which an update of an entry is answered with a success
\* sends a list request, whichever view is current and whatever else is in
\* flight.
C25_UpdateRefetchesList ==
    [][\A r \in InFlight :
          UpdateEntryResponseOf(r, "ok") => ListSent # {}]_vars

(***************************************************************************)
(* The start of a page: Config.load() and the init() of the API client.    *)
(* load() is called by the init() of the API client, which every request() *)
(* awaits until it has ended once, and by AdminApp.init().  The requests   *)
(* that follow init() are those the initial states above hold.             *)
(***************************************************************************)
ConfigFiles == {ConfigFile, PlainFile, << >>}
ApiInit == IF surface = "user" THEN "UserAPI.init" ELSE "AdminAPI.init"

InitStart ==
    /\ surface \in {"user", "admin"}
    /\ location = surface
    /\ token = IF surface = "admin" THEN SessionToken ELSE NoToken
    /\ storage = IF surface = "admin"
                 THEN [adminToken |-> SessionToken, tokenExpires |-> ExpiresAt]
                 ELSE NoStorage
    /\ InitSession
    /\ baseUrl = ""
    /\ config = NoRec
    /\ loaded = FALSE
    /\ configLoads = EmptyBag
    /\ initialized = FALSE
    /\ categories = {}
    /\ InitCommon
    /\ ready = FALSE
    /\ isLoading = FALSE
    /\ net = EmptyBag
    /\ toasts = {}

\* The part of a step of the start that is not the configuration's.
ConfigOnly ==
    /\ UNCHANGED <<surface, ready, location, authVars, urlVars, listVars,
                   filterVars, adminVars, net>>
    /\ toasts' = {}

\* Config.load() up to its await, called by `caller`: nothing to await once
\* loaded, a fetch of the file otherwise.
load(caller) ==
    IF loaded
    THEN UNCHANGED <<config, loaded, configLoads>>
    ELSE /\ BagCardinality(configLoads) < MaxLoads
         /\ configLoads' = configLoads (+) One(caller)
         /\ UNCHANGED <<config, loaded>>

\* init() of the API client from its await on
initDone ==
    /\ baseUrl' = get(config', "APP_SCRIPT_URL")
    /\ initialized' = TRUE

\* request() up to the await in init(): init() returns at once when it has
\* ended before.
RequestInit ==
    /\ ~initialized
    /\ load(ApiInit)
    /\ IF loaded THEN initDone ELSE UNCHANGED <<baseUrl, initialized>>
    /\ ConfigOnly

\* AdminApp.init() up to its await on load()
AppInit ==
    /\ surface = "admin"
    /\ ~loaded
    /\ load("AdminApp.init")
    /\ UNCHANGED <<baseUrl, initialized>>
    /\ ConfigOnly

\* The catch of load() that leaves the configuration as it is.
loadFailedKeeping ==
    /\ UNCHANGED config
    /\ loaded' = TRUE

\* The catch of load(): the fallback
loadFailed ==
    /\ config' = Defaults
    /\ loaded' = TRUE

\* load() from its await on, for the file `lines`
loadRead(lines) ==
    /\ config' = setLines(config, lines)
    /\ loaded' = TRUE

\* The fetch of the config file made for `caller` ends: with the file, or
\* with a failure (no file, no network); the caller goes on.
ConfigResponseOf(caller, outcome, lines) ==
    /\ caller \in BagToSet(configLoads)
    /\ configLoads' = configLoads (-) One(caller)
    /\ IF outcome = "ok" THEN loadRead(lines) ELSE loadFailed
    /\ IF caller = ApiInit THEN initDone ELSE UNCHANGED <<baseUrl, initialized>>
    /\ ConfigOnly

ConfigResponse ==
    \E caller \in BagToSet(configLoads), outcome \in {"ok", "fail"} :
      \E lines \in IF outcome = "ok" THEN ConfigFiles ELSE {<< >>} :
        ConfigResponseOf(caller, outcome, lines)

NextConfig ==
    \/ RequestInit
    \/ AppInit
    \/ ConfigResponse

SpecConfig == InitStart /\ [][NextConfig]_vars

C27_LoadFallsBack ==
    [][/\ \A caller \in BagToSet(configLoads) :
             ConfigResponseOf(caller, "fail", << >>)
                 => /\ config' = [APP_SCRIPT_URL |-> "", DRIVE_FOLDER_ID |-> "",
                                  PRIMARY_COLOR |-> "#0B5FFF",
                                  SECONDARY_COLOR |-> "#FFFFFF",
                                  BACKGROUND_COLOR |-> "#F8FAFC"]
                    /\ loaded'
                    /\ caller = ApiInit => initialized' /\ baseUrl' = ""
       /\ loaded => configLoads' \sqsubseteq configLoads]_vars

\* C27 witness: the one fetch of the start failed; the page runs on the
\* defaults, with no backend URL.
C27_RunsOnDefaults ==
    /\ loaded
    /\ initialized
    /\ config = Defaults
    /\ baseUrl = ""
    /\ configLoads = EmptyBag

(***************************************************************************)
(* Failures of remote calls, and the empty list.                           *)
(***************************************************************************)
Failures == {"fail", "unauthorized", "http", "neterr"}

\* The step answers request r with the failure `outcome`.
FailedWith(r, outcome) ==
    \/ \E data \in {NoData} : ListResponseOf(r, outcome, data)
    \/ \E data \in {{}} : CategoriesResponseOf(r, outcome, data)
    \/ StatsResponseOf(r, outcome)
    \/ DeleteEntryResponseOf(r, outcome)
    \/ DeleteCategoryResponseOf(r, outcome)
    \/ CreateEntryResponseOf(r, outcome)
    \/ UpdateEntryResponseOf(r, outcome)
    \/ CreateCategoryResponseOf(r, outcome)
    \/ UpdateCategoryResponseOf(r, outcome)
    \/ LogoutResponseOf(r, outcome)

\* C28: the step in which a remote call of the public or of the admin page is
\* answered with a failure (success false, a 401, another HTTP error, no
\* network) raises an error message.
C28_FailuresShown ==
    [][\A r \in InFlight, outcome \in Failures :
          FailedWith(r, outcome) => ErrorToast \in toasts']_vars

\* C28 (the list alone): a failed list request raises an error message.
ListFailureShown ==
    [][\A r \in InFlight, outcome \in Failures :
          (\E data \in {NoData} : ListResponseOf(r, outcome, data))
              => ErrorToast \in toasts']_vars

(***************************************************************************)
(* The empty list.                                                         *)
(***************************************************************************)
\* C29: a successful list response with no entries is no error: the result
\* set becomes empty, the empty-state element is shown, no error message is
\* raised and the pagination is updated from the response (current page,
\* pages for the total, total); a successful response with at least one entry
\* hides the empty-state element again.
C29_EmptyListShown ==
    [][\A r \in ListRequests, data \in ListData \cup LoadData :
          ListResponseOf(r, "ok", data) =>
            /\ entries' = data.entries
            /\ emptyState' = (data.entries = {})
            /\ ErrorToast \notin toasts'
            /\ pagination' = updated(pagination, currentPage,
                                     CeilDiv(data.total, PageSize), data.total)]_vars

\* The empty state is on show over an empty result set, with no error message
\* and the pagination of an empty list.
C29_EmptyStateOnShow ==
    /\ emptyState
    /\ entries = {}
    /\ totalEntries = 0
    /\ pagination.totalItems = 0
    /\ pagination.totalPages = 0
    /\ ErrorToast \notin toasts
    /\ ~isLoading

(***************************************************************************)
(* Enter in the search box.                                                *)
(***************************************************************************)
\* The text passes the minimum-length gate of the surface's search box.
PassesGate(value) ==
    IF surface = "user" THEN Len(value) = 0 \/ Len(value) >= UserMinSearch
    ELSE validateSearchQuery(value)

\* C30: Enter in the search box bypasses the debounce: the pending timer is
\* cancelled and the text of the box is committed at once when it passes the
\* minimum-length gate (nothing is committed or requested when it does not),
\* so no timer armed by an earlier keystroke is left to fire; the timer fires
\* only while armed, and a keystroke by itself arms the timer and commits and
\* requests nothing.
C30_EnterBypassesDebounce ==
    [][/\ SearchEnter =>
            /\ timer' = 0
            /\ IF PassesGate(inputText)
               THEN /\ filters' = [filters EXCEPT !.search = trim(inputText)]
                    /\ currentPage' = 1
               ELSE filters' = filters /\ net' = net
       /\ DebounceFire => (timer > 0 /\ timer' = 0)
       /\ SearchInput(Keystroke(inputText)) =>
            /\ timer' > 0
            /\ filters' = filters
            /\ currentPage' = currentPage
            /\ net' = net]_vars

\* A timer armed by a keystroke is pending, and Enter commits a text that is
\* not the committed one and cancels the timer.
C30_EnterBeforeTimer ==
    /\ timer > 0
    /\ filters.search # trim(inputText)
    /\ ENABLED (SearchEnter /\ timer' = 0 /\ filters'.search = trim(inputText))

(***************************************************************************)
(* UserApp.updateURL and loadFromURL.  The parameters of the address are a  *)
(* function from the keys set to their serialized values: a text is        *)
(* written with "+" for each blank, a page number in decimal digits.  The  *)
(* values of the date picker hold no character the serialization changes.  *)
(***************************************************************************)
\* URLSearchParams.toString() for the value of one parameter
encode(s) == [k \in 1..Len(s) |-> IF s[k] = " " THEN "+" ELSE s[k]]

\* new URLSearchParams(search).get(key) for the serialized value s
decode(s) == [k \in 1..Len(s) |-> IF s[k] = "+" THEN " " ELSE s[k]]

Digits == <<"0", "1", "2", "3", "4", "5", "6", "7", "8", "9">>

\* Number.prototype.toString() of a page number
RECURSIVE toString(_)
toString(n) ==
    IF n < 10 THEN <<Digits[n + 1]>>
    ELSE Append(toString(n \div 10), Digits[(n % 10) + 1])

\* parseInt(s, 10) of a text of digits; NaN for a text that starts with none
NaN == 0 - 1
DigitOf(c) == CHOOSE d \in 0..9 : Digits[d + 1] = c
RECURSIVE parseDigits(_, _)
parseDigits(s, n) ==
    IF s = Empty \/ \A d \in 0..9 : Digits[d + 1] # Head(s) THEN n
    ELSE parseDigits(Tail(s), 10 * n + DigitOf(Head(s)))
parseInt(s) ==
    IF s = Empty \/ \A d \in 0..9 : Digits[d + 1] # Head(s) THEN NaN
    ELSE parseDigits(s, 0)

\* The parameters updateURL() writes for the filters f and the page: a filter
\* that is set, and a page after the first.
written(f, page) ==
    Field("search", encode(f.search), f.search # Empty)
    @@ Field("date", f.date, f.date # NoDate)
    @@ Field("category", encode(f.category), f.category # NoCategory)
    @@ Field("page", toString(page), page > 1)

\* UserApp.updateURL()
UpdateURL ==
    /\ surface = "user"
    /\ Loaded
    /\ urlParams' = written(filters, currentPage)
    /\ toasts' = {}
    /\ UNCHANGED <<appVars, authVars, configVars, listVars, filterVars,
                   adminVars, net>>

\* The filters object loadFromURL() builds from the parameters q
readFilters(q) ==
    Field("search", decode(q.search), "search" \in DOMAIN q)
    @@ Field("date", q.date, "date" \in DOMAIN q)
    @@ Field("category", decode(q.category), "category" \in DOMAIN q)

\* parseInt(params.get('page'), 10) || 1
readPage(q) ==
    IF parseInt(q.page) = NaN \/ parseInt(q.page) = 0 THEN 1
    ELSE parseInt(q.page)

\* UserApp.loadFromURL(): the page is assigned, then setFilters runs when
\* there is a filter among the parameters; its notification runs
\* handleFiltersChange, which assigns the first page and calls loadEntries().
loadFromURL ==
    IF DOMAIN readFilters(urlParams) # {}
    THEN setFilters(readFilters(urlParams))
    ELSE /\ currentPage' = IF "page" \in DOMAIN urlParams
                           THEN readPage(urlParams) ELSE currentPage
         /\ UNCHANGED <<filters, inputText, isLoading, net>>
         /\ toasts' = {}

\* A new instance of UserApp: nothing typed, chosen or clicked yet.
Fresh ==
    /\ surface = "user"
    /\ filters = NoFilters
    /\ inputText = Empty
    /\ timer = 0
    /\ currentPage = 1

\* loadFromURL() on a new instance
LoadFromURL ==
    /\ Fresh
    /\ loadFromURL
    /\ UNCHANGED <<timer, searchError, pagination>>
    /\ ListKept
    /\ Quiet

\* The public page is loaded again at the address it has: the requests of the
\* page left are dropped and a new instance starts, as in InitUser.
Reload ==
    /\ surface = "user"
    /\ Loaded
    /\ currentPage' = 1
    /\ entries' = {}
    /\ totalEntries' = 0
    /\ emptyState' = FALSE
    /\ categories' = {}
    /\ filters' = NoFilters
    /\ inputText' = Empty
    /\ timer' = 0
    /\ pagination' = [currentPage |-> 1, totalPages |-> 1, totalItems |-> 0]
    /\ IF baseUrl = ""
       THEN /\ ready' = TRUE
            /\ isLoading' = FALSE
            /\ net' = EmptyBag
            /\ toasts' = {ErrorToast}
       ELSE /\ ready' = FALSE
            /\ isLoading' = TRUE
            /\ net' = One(Fetch(getCategories, "Filters.loadCategories"))
                      (+) One(Fetch(ListCall(1, NoFilters), "loadEntries"))
            /\ toasts' = {}
    /\ UNCHANGED <<surface, baseUrl, location, authVars, configVars, urlVars,
                   currentView, searchError, adminVars>>

ShareData == {d \in ListData : d.entries # {}}

NextShare ==
    \/ UpdateURL
    \/ Reload
    \/ LoadFromURL
    \/ DateChange
    \/ CategoryChange
    \/ SearchInput(ListTexts)
    \/ SearchEnter
    \/ PageClick
    \/ ListResponseFrom(ShareData)
    \/ CategoriesResponse

SpecShare == InitUser /\ [][NextShare]_vars

\* The filter states of the public page.
FilterStates ==
    [search : {trim(t) : t \in Texts(MaxLen)}, date : {NoDate} \cup Dates,
     category : {NoCategory} \cup CategoryNames]

\* C31: the filters and the page written by updateURL are restored by
\* loadFromURL on a new instance: whatever filters f and page p the address
\* was written for, after loadFromURL the filters are f and the current page
\* is p.
C31_UrlRoundTrip ==
    [][LoadFromURL =>
          \A f \in FilterStates, p \in 1..MaxPages :
              urlParams = written(f, p) => filters' = f /\ currentPage' = p]_vars

\* The filters are restored by loadFromURL, and so is the page of an address
\* written with no filter set or on the first page.
FiltersRoundTrip ==
    [][LoadFromURL =>
          \A f \in FilterStates, p \in 1..MaxPages :
              urlParams = written(f, p) =>
                  /\ filters' = f
                  /\ (f = NoFilters \/ p = 1) => currentPage' = p]_vars

(***************************************************************************)
(* The debounce of the search box.                                         *)
(***************************************************************************)
\* C32: the debounce is one cancellable task: at most one timeout of the
\* search box is pending at any time; a keystroke clears the pending one and
\* arms a new one, committing nothing; and when the timeout fires none is left
\* pending and the text then in the box is what is committed (if it passes the
\* gate), so a burst of keystrokes ends in at most one commit.
C32_OneDebounceTimer ==
    /\ [](timer <= 1)
    /\ [][/\ SearchInput(Keystroke(inputText)) =>
               (timer' = 1 /\ filters' = filters /\ net' = net)
          /\ DebounceFire =>
               /\ timer = 1
               /\ timer' = 0
               /\ IF PassesGate(inputText)
                  THEN filters' = [filters EXCEPT !.search = trim(inputText)]
                  ELSE filters' = filters /\ net' = net]_vars

\* A burst of keystrokes has filled the search box, one timeout is pending
\* and nothing typed has been committed.
C32_BurstPending ==
    /\ timer = 1
    /\ Len(inputText) = MaxLen
    /\ filters.search = Empty

(***************************************************************************)
(* Pagination.goToPage.                                                    *)
(***************************************************************************)
\* goToPage(page) with the onPageChange callback of the orchestrator
\* (handlePageChange / handleWebPageChange)
goToPage(n) ==
    IF n >= 1 /\ n <= pagination.totalPages
    THEN /\ pagination' = [pagination EXCEPT !.currentPage = n]
         /\ currentPage' = n
         /\ loadEntries(n, filters, {})
    ELSE /\ UNCHANGED <<pagination, currentPage, isLoading, net>>
         /\ toasts' = {}

\* goToPage(n) is called
GoToPageOf(n) ==
    /\ FiltersUsable
    /\ goToPage(n)
    /\ UNCHANGED filterVars
    /\ ListKept
    /\ Quiet

GoToPage == \E n \in 0..(MaxPages + 1) : GoToPageOf(n)

NextGoTo ==
    \/ GoToPage
    \/ PageClickOn(AnyButtons)
    \/ ListResponseFrom(PageData)

SpecGoTo == InitPages /\ [][NextGoTo]_vars

\* C33: goToPage(n) changes nothing and runs no callback for n outside
\* 1..totalPages; for n inside and not the current page it makes n the current
\* page and runs the callback once with n (the orchestrator takes page n and,
\* when no fetch is running, requests it); for n the current page it runs no
\* callback: nothing is requested.
C33_GoToPageOnChange ==
    [][\A n \in 0..(MaxPages + 1) :
          GoToPageOf(n) =>
            IF n < 1 \/ n > pagination.totalPages
            THEN UNCHANGED <<pagination, currentPage, net>>
            ELSE IF n # pagination.currentPage
            THEN /\ pagination'.currentPage = n
                 /\ currentPage' = n
                 /\ ListSent = IF isLoading THEN {}
                               ELSE {Fetch(ListCall(n, filters), "loadEntries")}
            ELSE UNCHANGED <<pagination, currentPage, net>>]_vars

\* goToPage(n) for n outside the range changes nothing, and for n inside it,
\* the current page or not, it makes n the current page and runs the callback
\* once.
GoToPageInRange ==
    [][\A n \in 0..(MaxPages + 1) :
          GoToPageOf(n) =>
            IF n < 1 \/ n > pagination.totalPages
            THEN UNCHANGED <<pagination, currentPage, net>>
            ELSE /\ pagination'.currentPage = n
                 /\ currentPage' = n
                 /\ ListSent = IF isLoading THEN {}
                               ELSE {Fetch(ListCall(n, filters), "loadEntries")}]_vars

(***************************************************************************)
(* What is displayed, and the page and filters it is displayed for.        *)
(***************************************************************************)
\* C34: what an orchestrator that is not loading displays after a successful
\* fetch is the response to a request for its current page and the current
\* filters, and the controller highlights that page: a successful list
\* response is applied only for a request whose parameters are those of the
\* current page and filters, and while nothing is loading neither the page nor
\* the filters change unless a fetch starts or fails.
C34_DisplayConsistent ==
    [][/\ \A r \in ListRequests, data \in ListData :
             ListResponseOf(r, "ok", data) =>
                 /\ r.params = ListParams(currentPage', filters')
                 /\ pagination'.currentPage = r.params.page
       /\ (~isLoading /\ ~isLoading' /\ ListAnswered = {}) =>
             \/ UNCHANGED <<currentPage, filters>>
             \/ ErrorToast \in toasts']_vars

\* The part of C34 that holds: a list response is applied with the page of
\* the orchestrator highlighted, and while nothing is loading the page and
\* the filters change only as a fetch starts or fails.
DisplayKeptWhileIdle ==
    [][/\ \A r \in ListRequests, data \in ListData :
             ListResponseOf(r, "ok", data) =>
                 pagination'.currentPage = currentPage'
       /\ (~isLoading /\ ~isLoading' /\ ListAnswered = {}) =>
             \/ UNCHANGED <<currentPage, filters>>
             \/ ErrorToast \in toasts']_vars

(***************************************************************************)
(* The current page after a list load.                                     *)
(***************************************************************************)
\* The admin list on its last page, of one entry, which is deleted: the pages
\* the backend serves before and after.
LastPageData ==
    {[entries |-> EntryIds, total |-> MaxTotal],
     [entries |-> EntryIds, total |-> MaxTotal - 1],
     [entries |-> {}, total |-> MaxTotal - 1]}

NextLastPage ==
    \/ PageClick
    \/ DeleteClick
    \/ ConfirmDelete
    \/ CancelDelete
    \/ DeleteEntryResponse
    \/ ListResponseFrom(LastPageData)

SpecLastPage == InitPages /\ [][NextLastPage]_vars

\* C35: after every successful list load the current page of the orchestrator
\* is one of the pages the response leaves: it lies in 1..max(1, totalPages)
\* for totalPages = ceil(total / 12) of that response.
C35_PageWithinLoadedRange ==
    [][\A r \in ListRequests, data \in ListData \cup LastPageData :
          ListResponseOf(r, "ok", data) =>
              currentPage' \in 1..Max(1, CeilDiv(data.total, PageSize))]_vars

(***************************************************************************)
(* The release of the in-flight guard.                                     *)
(***************************************************************************)
\* Every request of loadEntries is answered in the end, with a response or a
\* failure: the remote data client owes the orchestrator an answer.
SpecLoadFair == SpecLoad /\ WF_vars(ListResponseFrom(LoadData))

\* The ways a list request ends.
ListOutcomes == {"ok", "fail", "unauthorized", "http", "neterr", "malformed"}

\* C36: the guard of loadEntries is always released: every answer to a list
\* request, a success, a success = false, an HTTP or transport failure or a
\* body that cannot be applied, leaves isLoading false, and with every request
\* answered in the end an orchestrator that is loading stops loading (or its
\* page is left, on a 401 of the admin page).
C36_GuardReleased ==
    /\ [][\A r \in ListRequests, outcome \in ListOutcomes,
             data \in LoadData \cup {NoData} :
               ListResponseOf(r, outcome, data) => ~isLoading']_vars
    /\ (isLoading ~> (~isLoading \/ ~Loaded))

\* A fetch of the public page has failed and the guard is released: the error
\* is shown, nothing is loading and no list request is outstanding.
C36_ReleasedAfterFailure ==
    /\ surface = "user"
    /\ baseUrl # ""
    /\ Loaded
    /\ ErrorToast \in toasts
    /\ ~isLoading
    /\ Outstanding = 0

ImageEntry == "e1"

\* 'change' on the image input of the edit form while entry i is edited
SelectImageFor(i) == editModal.currentData = i /\ SelectEditImage

NextEdit ==
    \/ ~editModal.isOpen /\ EditClick
    \/ SelectImageFor(ImageEntry)
    \/ RemoveEditImage
    \/ SubmitEdit
    \/ CloseEdit
    \/ ProgressTick({ProgressCap})
    \/ UploadDone
    \/ UpdateEntryResponse
    \/ ListResponse

SpecEdit == InitPages /\ [][NextEdit]_vars

\* The form data of the updates a step sends or hands to an upload bar.
UpdatesOut ==
    {r.body : r \in {q \in Sent : q.endpoint = "/entries/update"}}
    \cup {u.formData : u \in {v \in UploadsAdded : v.callback = "completeUpdate"}}

\* C38: an update carries an image only if the admin selected it for the
\* entry being edited: with images selected while ImageEntry is edited and at
\* no other time, no update of another entry carries an image, whatever edit
\* sessions were cancelled, closed or completed before.
C38_ImageOfEditedEntry ==
    [][\A body \in UpdatesOut :
          body.rowSerial # ImageEntry => "image" \notin DOMAIN body]_vars

\* An update carries the image the input holds at the submit and the entry the
\* modal was opened for.
UpdateCarriesInput ==
    [][SubmitEdit =>
          \A body \in UpdatesOut :
              /\ body.rowSerial = editModal.currentData
              /\ "image" \in DOMAIN body <=> (editImage # NoFile /\ editImage.size > 0)
              /\ "image" \in DOMAIN body => body.image = editImage]_vars

(***************************************************************************)
(* Submits of the add-entry form.                                          *)
(***************************************************************************)
\* The create requests in flight and the submits whose create request waits
\* for the upload bar.
CreatesPending ==
    BagCardinality([r \in {q \in InFlight : q.endpoint = "/entries/create"}
                       |-> CopiesIn(r, net)])
    + BagCardinality([u \in {v \in BagToSet(uploads) :
                                v.callback = "completeAddEntry"}
                         |-> CopiesIn(u, uploads)])

\* C39: at most one create request is pending (behind the upload bar) or
\* outstanding at any time: a second submit of the add-entry form made before
\* the create request of the first has completed issues none.
C39_OneCreatePending == CreatesPending <= 1

(***************************************************************************)
(* The shape of the page window.                                           *)
(***************************************************************************)
\* C40: with totalPages >= 1 and the current page in 1..totalPages, the window
\* of getPageNumbers holds page 1, the last page and the current page, its
\* page numbers are pages and strictly increase from left to right, it has at
\* most 7 items with its ellipses, and every ellipsis stands between two page
\* numbers that are not adjacent.
C40_WindowShape ==
    LET cur == pagination.currentPage
        last == pagination.totalPages
        w == getPageNumbers(pagination)
        numbers == {i \in DOMAIN w : w[i] # Ellipsis}
    IN  InRange(pagination) =>
          /\ \E i \in numbers : w[i] = 1
          /\ \E i \in numbers : w[i] = last
          /\ \E i \in numbers : w[i] = cur
          /\ \A i \in numbers : w[i] \in 1..last
          /\ \A i, j \in numbers : i < j => w[i] < w[j]
          /\ Len(w) <= 7
          /\ \A i \in DOMAIN w \ numbers :
                /\ i - 1 \in numbers
                /\ i + 1 \in numbers
                /\ w[i + 1] > w[i - 1] + 1

\* Page 5 of eight: the shortest list with an ellipsis, which stands for
\* pages 2 and 3.
C40_TightWindow ==
    /\ pagination.totalPages = MaxVisible + 1
    /\ pagination.currentPage = 5
    /\ currentPage = 5

====
